---------------------------- MODULE Spec2Model ----------------------------
(***************************************************************************)
(* Model of extract_concepts (src/app.py): the allow-list classifier, the  *)
(* period reconciler (the period_map loop), the unit normalizer and the    *)
(* label deduplication that build the three statement series.              *)
(*                                                                         *)
(* Strings that the code slices, compares or rewrites (dates, concept      *)
(* names, labels) are sequences of one-character strings; strings that are *)
(* only tested for equality (forms, unit keys, namespaces) are TLA+        *)
(* strings.  A dict is a function whose DOMAIN is its key set.             *)
(***************************************************************************)
EXTENDS Integers, Sequences, FiniteSets, TLC

(***************************************************************************)
(* Characters and Python string primitives                                 *)
(***************************************************************************)

\* The characters the model uses, in ascending code-point order.
AsciiChars ==
    <<" ", "-", "/",
      "0", "1", "2", "3", "4", "5", "6", "7", "8", "9",
      "A", "B", "C", "D", "E", "F", "G", "H", "I", "J", "K", "L", "M",
      "N", "O", "P", "Q", "R", "S", "T", "U", "V", "W", "X", "Y", "Z",
      "a", "b", "c", "d", "e", "f", "g", "h", "i", "j", "k", "l", "m",
      "n", "o", "p", "q", "r", "s", "t", "u", "v", "w", "x", "y", "z">>

\* Rank of a character in code-point order (str comparison compares these).
OrdTable ==
    [c \in {AsciiChars[i] : i \in 1..Len(AsciiChars)} |->
        CHOOSE i \in 1..Len(AsciiChars) : AsciiChars[i] = c]

Ord(c) ==
    OrdTable[c]

IsDigit(c) ==
    Ord(c) >= Ord("0") /\ Ord(c) <= Ord("9")

\* [A-Z]
IsUpper(c) ==
    Ord(c) >= Ord("A") /\ Ord(c) <= Ord("Z")

\* [a-z]
IsLower(c) ==
    Ord(c) >= Ord("a") /\ Ord(c) <= Ord("z")

DigitVal(c) ==
    Ord(c) - Ord("0")

RECURSIVE StrLessFrom(_, _, _)
StrLessFrom(a, b, i) ==
    IF i > Len(b) THEN FALSE
    ELSE IF i > Len(a) THEN TRUE
    ELSE IF a[i] # b[i] THEN Ord(a[i]) < Ord(b[i])
    ELSE StrLessFrom(a, b, i + 1)

\* Python str `a < b`: lexicographic by code point, a proper prefix is smaller.
StrLess(a, b) ==
    StrLessFrom(a, b, 1)

\* Python str `a >= b`
StrGeq(a, b) ==
    ~StrLess(a, b)

\* Python str `a > b`
StrGreater(a, b) ==
    StrLess(b, a)

\* Python slice s[:n]
Prefix(s, n) ==
    SubSeq(s, 1, IF Len(s) < n THEN Len(s) ELSE n)

\* dict.get(k, default)
Get(d, k, default) ==
    IF k \in DOMAIN d THEN d[k] ELSE default

\* The empty dict.
EmptyDict ==
    [k \in {} |-> 0]

\* Python truthiness of a str: non-empty.
Truthy(s) ==
    Len(s) > 0

(***************************************************************************)
(* pd.Timestamp(...) on ISO dates and the .days of a difference            *)
(***************************************************************************)

IsLeap(y) ==
    (y % 4 = 0 /\ y % 100 # 0) \/ y % 400 = 0

DaysInMonth(y, m) ==
    IF m = 2 THEN (IF IsLeap(y) THEN 28 + 1 ELSE 28)
    ELSE IF m \in {4, 6, 9, 11} THEN 30
    ELSE 31

\* Days from 1970-01-01 to the civil date y-m-d (proleptic Gregorian).
DaysFromCivil(y, m, d) ==
    LET yy  == IF m <= 2 THEN y - 1 ELSE y
        era == yy \div 400
        yoe == yy - era * 400
        mp  == IF m > 2 THEN m - 3 ELSE m + 9
        doy == (153 * mp + 2) \div 5 + d - 1
        doe == yoe * 365 + yoe \div 4 - yoe \div 100 + doy
    IN  era * 146097 + doe - 719468

\* The shape YYYY-MM-DD.
IsIsoShape(s) ==
    /\ Len(s) = 10
    /\ \A i \in {1, 2, 3, 4, 6, 7, 9, 10} : IsDigit(s[i])
    /\ s[5] = "-"
    /\ s[8] = "-"

\* pd.Timestamp(s) for a 10-character date string: the day number when s is
\* a calendar date, and a raised exception (ok = FALSE) when it is not.
Timestamp(s) ==
    IF ~IsIsoShape(s) THEN [ok |-> FALSE, days |-> 0]
    ELSE LET y == 1000 * DigitVal(s[1]) + 100 * DigitVal(s[2])
                  + 10 * DigitVal(s[3]) + DigitVal(s[4])
             m == 10 * DigitVal(s[6]) + DigitVal(s[7])
             d == 10 * DigitVal(s[9]) + DigitVal(s[10])
         IN  IF m >= 1 /\ m <= 12 /\ d >= 1 /\ d <= DaysInMonth(y, m)
             THEN [ok |-> TRUE, days |-> DaysFromCivil(y, m, d)]
             ELSE [ok |-> FALSE, days |-> 0]

(***************************************************************************)
(* Numbers.  A value is a decimal [m, e] standing for m * 10^(-e); the     *)
(* rounded results are decimals with e = 3 or e = 4.                       *)
(***************************************************************************)

RECURSIVE Pow10(_)
Pow10(n) ==
    IF n = 0 THEN 1 ELSE 10 * Pow10(n - 1)

Abs(x) ==
    IF x < 0 THEN 0 - x ELSE x

\* floor(a / b) for b > 0 and any integer a.
FloorDiv(a, b) ==
    IF a >= 0 THEN a \div b ELSE 0 - ((0 - a + b - 1) \div b)

\* round(x, nd) for x = m * 10^(-nd - k), k > 0 digits beyond the nd kept:
\* the mantissas (at nd decimals) round() can return.  round() rounds the
\* binary double nearest to x, so a decimal lying exactly between two
\* neighbours may go either way (round(0.0015, 3) = 0.002, round(0.0005, 3)
\* = 0.001 and round(0.0025, 3) = 0.003): both neighbours are outcomes.
RoundOutcomes(m, k) ==
    LET p  == Pow10(k)
        lo == FloorDiv(m, p)
        r  == m - lo * p
    IN  IF 2 * r < p THEN {lo}
        ELSE IF 2 * r > p THEN {lo + 1}
        ELSE {lo, lo + 1}

\* round(v / 1_000_000, 3)
RoundMillions(v) ==
    {[m |-> r, e |-> 3] : r \in RoundOutcomes(v.m, v.e + 6 - 3)}

\* round(v, 4): a value with no more than 4 decimals is returned as it is.
RoundPerShare(v) ==
    IF v.e <= 4 THEN {v}
    ELSE {[m |-> r, e |-> 4] : r \in RoundOutcomes(v.m, v.e - 4)}

(***************************************************************************)
(* human_label                                                             *)
(***************************************************************************)

\* Last index of the run of [A-Z] that starts at i (s[i] is upper-case).
RECURSIVE UpperRunEnd(_, _)
UpperRunEnd(s, i) ==
    IF i < Len(s) /\ IsUpper(s[i + 1]) THEN UpperRunEnd(s, i + 1) ELSE i

\* re.sub(r"([A-Z]+)([A-Z][a-z])", r"\1 \2", s), scanning from index i.
RECURSIVE SplitAcronyms(_, _)
SplitAcronyms(s, i) ==
    IF i > Len(s) THEN <<>>
    ELSE IF ~IsUpper(s[i]) THEN <<s[i]>> \o SplitAcronyms(s, i + 1)
    ELSE LET r == UpperRunEnd(s, i)
         IN  IF r > i /\ r < Len(s) /\ IsLower(s[r + 1])
             THEN SubSeq(s, i, r - 1) \o <<" ">> \o SubSeq(s, r, r + 1)
                  \o SplitAcronyms(s, r + 2)
             ELSE <<s[i]>> \o SplitAcronyms(s, i + 1)

\* Last index of the run of [a-z] that starts at i (s[i] is lower-case).
RECURSIVE LowerRunEnd(_, _)
LowerRunEnd(s, i) ==
    IF i < Len(s) /\ IsLower(s[i + 1]) THEN LowerRunEnd(s, i + 1) ELSE i

\* re.sub(r"([A-Z][a-z]+)", r" \1", s), scanning from index i.
RECURSIVE SpaceWords(_, _)
SpaceWords(s, i) ==
    IF i > Len(s) THEN <<>>
    ELSE IF IsUpper(s[i]) /\ i < Len(s) /\ IsLower(s[i + 1])
         THEN LET r == LowerRunEnd(s, i + 1)
              IN  <<" ">> \o SubSeq(s, i, r) \o SpaceWords(s, r + 1)
         ELSE <<s[i]>> \o SpaceWords(s, i + 1)

\* str.strip() for the one whitespace character of the model.
RECURSIVE Strip(_)
Strip(s) ==
    IF s = <<>> THEN s
    ELSE IF Head(s) = " " THEN Strip(Tail(s))
    ELSE IF s[Len(s)] = " " THEN Strip(SubSeq(s, 1, Len(s) - 1))
    ELSE s

\* Faulty variant: the concept name is used as the label, no word spacing.
human_label_Raw(concept) ==
    concept

human_label(concept) ==
    Strip(SpaceWords(SplitAcronyms(concept, 1), 1))

(***************************************************************************)
(* The static tables, restricted to the concepts the model feeds in        *)
(***************************************************************************)

NetIncomeLoss ==
    <<"N", "e", "t", "I", "n", "c", "o", "m", "e", "L", "o", "s", "s">>

Assets ==
    <<"A", "s", "s", "e", "t", "s">>

EarningsPerShareBasic ==
    <<"E", "a", "r", "n", "i", "n", "g", "s", "P", "e", "r", "S", "h", "a",
      "r", "e", "B", "a", "s", "i", "c">>

CommonStockSharesOutstanding ==
    <<"C", "o", "m", "m", "o", "n", "S", "t", "o", "c", "k", "S", "h", "a",
      "r", "e", "s", "O", "u", "t", "s", "t", "a", "n", "d", "i", "n", "g">>

OperatingIncomeLoss ==
    <<"O", "p", "e", "r", "a", "t", "i", "n", "g", "I", "n", "c", "o", "m",
      "e", "L", "o", "s", "s">>

DepreciationDepletionAndAmortization ==
    <<"D", "e", "p", "r", "e", "c", "i", "a", "t", "i", "o", "n", "D", "e",
      "p", "l", "e", "t", "i", "o", "n", "A", "n", "d", "A", "m", "o", "r",
      "t", "i", "z", "a", "t", "i", "o", "n">>

\* On the deny-list.
EntityPublicFloat ==
    <<"E", "n", "t", "i", "t", "y", "P", "u", "b", "l", "i", "c", "F", "l",
      "o", "a", "t">>

\* On neither list.
DocumentType ==
    <<"D", "o", "c", "u", "m", "e", "n", "t", "T", "y", "p", "e">>

CONCEPT_STATEMENT ==
    (NetIncomeLoss :> "IS") @@ (EarningsPerShareBasic :> "IS")
    @@ (OperatingIncomeLoss :> "IS") @@ (DepreciationDepletionAndAmortization :> "IS")
    @@ (Assets :> "BS") @@ (CommonStockSharesOutstanding :> "BS")

EXCLUDE_CONCEPTS ==
    {EntityPublicFloat}

PER_SHARE_CONCEPTS ==
    {EarningsPerShareBasic}

SHARE_COUNT_CONCEPTS ==
    {CommonStockSharesOutstanding}

\* for ns in ["us-gaap", "dei"]
NamespaceOrder ==
    <<"us-gaap", "dei">>

Statements ==
    {"IS", "BS", "CF"}

(***************************************************************************)
(* State                                                                   *)
(***************************************************************************)

VARIABLES
    facts,        \* input: namespace -> list of [concept, units]
    is_annual,    \* input
    cutoff_date,  \* input
    pc,           \* "loop", "obs", "done"
    ns_i,         \* how many namespaces of NamespaceOrder have been entered
    todo,         \* items of ns_facts not yet visited
    concept,      \* locals of the concept being extracted
    stmt,
    unit_type,
    raw,
    filtered,
    idx,          \* position of the period_map loop in filtered
    period_map,
    result,
    by_stmt,
    origin,       \* history: period key -> index in filtered of the entry's writer
    source,       \* history: result key -> [ns, concept] of the entry's writer
    series        \* history: <<ns, concept>> -> the converted series it produced

\* The state of extract_concepts.
extractVars ==
    <<facts, is_annual, cutoff_date, pc, ns_i, todo, concept, stmt, unit_type,
      raw, filtered, idx, period_map, result, by_stmt, origin, source, series>>

\* The statement ordering of main (lines 913-915): a statement is the list of
\* its (label, period map) items in the insertion order of the dict.
VARIABLES
    annual0,      \* history: the statements as extract_concepts returned them
    annual,       \* statement -> list of items
    sort_i        \* how many of the sort_statement calls have run

sortVars ==
    <<annual0, annual, sort_i>>

\* The table miner: fetch_segment_data with extract_tables_from_html inlined.
VARIABLES
    filings,      \* input: the filing list, [date, accession] each
    max_filings,  \* input
    web,          \* environment: accession -> the response the server gives
    m_pc,         \* "fetch", "extract", "collect", "done" ("idle": no run)
    fi,           \* position of `for filing in filings[:max_filings]`
    html,         \* html of the running iteration
    cand_i,       \* extract_tables_from_html: position among the located tables
    seen,         \* extract_tables_from_html: seen
    doc_results,  \* extract_tables_from_html: results
    coll_i,       \* position of `for df in extract_tables_from_html(...)`
    results,      \* fetch_segment_data: results, [date, df] each
    seen_tables,  \* fetch_segment_data: seen_tables
    log,          \* history: the fetches and sleeps in the order they happened
    gated,        \* history: the tables is_useful_table was called on
    found         \* history: per entry of results the table as found and its filing

minerVars ==
    <<filings, max_filings, web, m_pc, fi, html, cand_i, seen, doc_results,
      coll_i, results, seen_tables, log, gated, found>>

\* The run of main, one step per call it makes.
VARIABLES
    run_btn,           \* input: the button was pressed
    ticker,            \* input, stripped and upper-cased by the text field
    include_segments,  \* input: the checkbox
    company_tickers,   \* environment: the entries of company_tickers.json
    failing,           \* environment: the call of this run that raises, "" for none
    main_pc,           \* the next statement of main ("idle": no run)
    cik,
    steps,             \* history: the calls started, in order
    shown,             \* history: the messages shown (st.info, st.error, st.success)
    delivered          \* history: the workbook was offered for download

mainVars ==
    <<run_btn, ticker, include_segments, company_tickers, failing, main_pc, cik,
      steps, shown, delivered>>

\* Everything outside extract_concepts.
others ==
    <<sortVars, minerVars, mainVars>>

vars ==
    <<extractVars, others>>

inputs ==
    <<facts, is_annual, cutoff_date>>

\* html is None.
NoneHtml ==
    [none |-> TRUE, empty |-> TRUE, tables |-> <<>>]

\* No mining run.
MinerIdle ==
    /\ filings = <<>>
    /\ max_filings = 0
    /\ web = <<>>
    /\ m_pc = "idle"
    /\ fi = 0
    /\ html = NoneHtml
    /\ cand_i = 0
    /\ seen = {}
    /\ doc_results = <<>>
    /\ coll_i = 0
    /\ results = <<>>
    /\ seen_tables = {}
    /\ log = <<>>
    /\ gated = {}
    /\ found = <<>>

\* main is not running.
MainIdle ==
    /\ run_btn = FALSE
    /\ ticker = <<>>
    /\ include_segments = FALSE
    /\ company_tickers = <<>>
    /\ failing = ""
    /\ main_pc = "idle"
    /\ cik = <<>>
    /\ steps = <<>>
    /\ shown = <<>>
    /\ delivered = FALSE

\* No statement is being ordered.
SortIdle ==
    /\ annual0 = <<>>
    /\ annual = <<>>
    /\ sort_i = 0

\* The namespace of the running iteration.
ns ==
    NamespaceOrder[ns_i]

(***************************************************************************)
(* extract_concepts, piece by piece                                        *)
(***************************************************************************)

valid_forms ==
    IF is_annual THEN {"10-K", "20-F"} ELSE {"10-Q", "6-K"}

span_min ==
    IF is_annual THEN 300 ELSE 60

span_max ==
    IF is_annual THEN 400 ELSE 110

bs_concepts ==
    {c \in DOMAIN CONCEPT_STATEMENT : CONCEPT_STATEMENT[c] = "BS"}

\* Faulty variant: an unlisted concept falls back to the income statement.
Classify_DefaultIS(c) ==
    Get(CONCEPT_STATEMENT, c, "IS")

\* stmt = CONCEPT_STATEMENT.get(concept), "None" for None.
Classify(c) ==
    Get(CONCEPT_STATEMENT, c, "None")

\* The if/elif chain over the unit buckets: the bucket key used, "" for none.
PickUnitType(units) ==
    IF "USD" \in DOMAIN units THEN "USD"
    ELSE IF "USD/shares" \in DOMAIN units THEN "USD/shares"
    ELSE IF "shares" \in DOMAIN units THEN "shares"
    ELSE ""

\* Faulty variant: the form test left out of the comprehension.
PassesFilter_AnyForm(e) ==
    /\ StrGeq(Get(e, "end", <<>>), cutoff_date)
    /\ "val" \in DOMAIN e

\* The condition of the list comprehension `filtered`.
PassesFilter(e) ==
    /\ "form" \in DOMAIN e
    /\ e["form"] \in valid_forms
    /\ StrGeq(Get(e, "end", <<>>), cutoff_date)
    /\ "val" \in DOMAIN e

\* filtered = [e for e in raw if ...]
RECURSIVE Filtered(_)
Filtered(lst) ==
    IF lst = <<>> THEN <<>>
    ELSE IF PassesFilter(Head(lst)) THEN <<Head(lst)>> \o Filtered(Tail(lst))
    ELSE Filtered(Tail(lst))

\* Faulty variant: only the lower bound of the window is tested.
SpanFilterRejects_NoUpperBound(e, c) ==
    LET start == Get(e, "start", <<>>)
        is_bs == c \in bs_concepts
    IN  /\ ~is_bs
        /\ Truthy(start)
        /\ LET te == Timestamp(e["end"])
               ts == Timestamp(start)
           IN  /\ te.ok
               /\ ts.ok
               /\ ~(span_min <= te.days - ts.days)

\* Faulty variant: `except Exception: continue`, a date that does not parse
\* drops the observation.
SpanFilterRejects_DropsUnparsed(e, c) ==
    LET start == Get(e, "start", <<>>)
        is_bs == c \in bs_concepts
    IN  /\ ~is_bs
        /\ Truthy(start)
        /\ LET te == Timestamp(e["end"])
               ts == Timestamp(start)
           IN  \/ ~te.ok
               \/ ~ts.ok
               \/ ~(span_min <= te.days - ts.days /\ te.days - ts.days <= span_max)

\* TRUE when the span filter reaches its `continue` for e.
SpanFilterRejects(e, c) ==
    LET start == Get(e, "start", <<>>)
        is_bs == c \in bs_concepts
    IN  /\ ~is_bs
        /\ Truthy(start)
        /\ LET te == Timestamp(e["end"])
               ts == Timestamp(start)
           IN  /\ te.ok
               /\ ts.ok
               /\ ~(span_min <= te.days - ts.days /\ te.days - ts.days <= span_max)

\* Faulty variant: the annual slice end[:4] forgotten.
period_key_NoSlice(end) ==
    end

\* Faulty variant: the slice taken under both frequencies.
period_key_AlwaysSliced(end) ==
    Prefix(end, 4)

period_key(end) ==
    IF is_annual THEN Prefix(end, 4) ELSE end

\* Faulty variant: the comparison of the filed dates turned round.
Supersedes_Reversed(pm, pk, filed) ==
    pk \notin DOMAIN pm \/ StrLess(filed, pm[pk].filed)

\* Faulty variant: an observation filed the same day replaces the retained one.
Supersedes_OrEqual(pm, pk, filed) ==
    pk \notin DOMAIN pm \/ ~StrLess(filed, pm[pk].filed)

\* The guard of the assignment into period_map.
Supersedes(pm, pk, filed) ==
    pk \notin DOMAIN pm \/ StrGreater(filed, pm[pk].filed)

\* d[k] = v
Put(d, k, v) ==
    [x \in DOMAIN d \cup {k} |-> IF x = k THEN v ELSE d[x]]

\* Faulty variant: the class is read from the unit bucket alone.
ConvertValue_ByBucketOnly(v, c, ut) ==
    IF ut = "USD/shares" THEN RoundPerShare(v)
    ELSE RoundMillions(v)

\* One branch of the unit conversion: the values converted[pk] can take.
ConvertValue(v, c, ut) ==
    IF c \in PER_SHARE_CONCEPTS \/ ut = "USD/shares" THEN RoundPerShare(v)
    ELSE IF c \in SHARE_COUNT_CONCEPTS \/ ut = "shares" THEN RoundMillions(v)
    ELSE RoundMillions(v)

\* The dicts `converted` can be after the unit conversion loop.
ConvertedOutcomes(pm, c, ut) ==
    {f \in [DOMAIN pm -> UNION {ConvertValue(pm[k].val, c, ut) : k \in DOMAIN pm}] :
        \A k \in DOMAIN pm : f[k] \in ConvertValue(pm[k].val, c, ut)}

\* Faulty variant: `result[key] = converted` without the guard.
MayStore_Always(res, key, namespace) ==
    TRUE

\* The guard of the assignment into result.
MayStore(res, key, namespace) ==
    key \notin DOMAIN res \/ namespace = "us-gaap"

\* {stmt: {label: {period: val}}} from {(stmt, label): {period: val}}.
Reshaped(res) ==
    [s \in Statements |->
        [label \in {k[2] : k \in {x \in DOMAIN res : x[1] = s}} |-> res[<<s, label>>]]]

(***************************************************************************)
(* Inputs                                                                  *)
(***************************************************************************)

\* Longest raw observation list of a unit bucket.
MaxObs ==
    3

\* Most concepts filed under one namespace.
MaxConcepts ==
    2

Digit(n) ==
    AsciiChars[Ord("0") + n]

\* The date y-m-d as the API writes it: "YYYY-MM-DD".  Iso(2022, 13, 1) is
\* the malformed "2022-13-01".
Iso(y, m, d) ==
    <<Digit(y \div 1000), Digit((y \div 100) % 10), Digit((y \div 10) % 10),
      Digit(y % 10), "-", Digit(m \div 10), Digit(m % 10), "-",
      Digit(d \div 10), Digit(d % 10)>>

Whole(n) ==
    [m |-> n, e |-> 0]

Dec(mantissa, places) ==
    [m |-> mantissa, e |-> places]

\* The original filing of fiscal 2022, 364 days.
OriginalFiling ==
    [form |-> "10-K", end |-> Iso(2022, 12, 31), start |-> Iso(2022, 1, 1),
     filed |-> Iso(2023, 2, 1), val |-> Whole(100)]

\* Its amendment, filed on form 10-K/A as EDGAR names amended annual reports.
AmendmentFiling ==
    [form |-> "10-K/A", end |-> Iso(2022, 12, 31), start |-> Iso(2022, 1, 1),
     filed |-> Iso(2023, 5, 1), val |-> Whole(110)]

\* Raw observations met under annual frequency.
AnnualPool ==
    { OriginalFiling,
      AmendmentFiling,
      \* a later 10-K that restates the year, 400 days
      [form |-> "10-K", end |-> Iso(2022, 12, 31), start |-> Iso(2021, 11, 26),
       filed |-> Iso(2023, 5, 1), val |-> Whole(120)],
      \* another fiscal period ending in calendar 2022, 300 days
      [form |-> "20-F", end |-> Iso(2022, 6, 30), start |-> Iso(2021, 9, 3),
       filed |-> Iso(2022, 8, 15), val |-> Whole(130)],
      \* 401 days
      [form |-> "10-K", end |-> Iso(2022, 12, 31), start |-> Iso(2021, 11, 25),
       filed |-> Iso(2023, 6, 1), val |-> Whole(140)],
      \* a start date that is no calendar date
      [form |-> "10-K", end |-> Iso(2022, 12, 31), start |-> Iso(2022, 13, 1),
       filed |-> Iso(2023, 7, 1), val |-> Whole(150)],
      \* no start date
      [form |-> "10-K", end |-> Iso(2021, 12, 31),
       filed |-> Iso(2022, 2, 1), val |-> Whole(160)],
      \* no filed date
      [form |-> "10-K", end |-> Iso(2022, 12, 31), start |-> Iso(2022, 1, 1),
       val |-> Whole(170)],
      \* ends before the cutoff
      [form |-> "10-K", end |-> Iso(2019, 12, 31), start |-> Iso(2019, 1, 1),
       filed |-> Iso(2020, 2, 1), val |-> Whole(180)],
      \* no value
      [form |-> "10-K", end |-> Iso(2022, 12, 31), start |-> Iso(2022, 1, 1),
       filed |-> Iso(2023, 8, 1)],
      \* filed the same day as the original
      [form |-> "10-K", end |-> Iso(2022, 12, 31), start |-> Iso(2022, 1, 1),
       filed |-> Iso(2023, 2, 1), val |-> Whole(105)] }

\* Raw observations met under quarterly frequency.
QuarterlyPool ==
    { \* the third quarter of 2022, 91 days
      [form |-> "10-Q", end |-> Iso(2022, 9, 30), start |-> Iso(2022, 7, 1),
       filed |-> Iso(2022, 11, 1), val |-> Whole(200)],
      \* the same quarter, filed later
      [form |-> "10-Q", end |-> Iso(2022, 9, 30), start |-> Iso(2022, 7, 1),
       filed |-> Iso(2022, 12, 15), val |-> Whole(210)],
      \* year to date at the same end date, 272 days
      [form |-> "10-Q", end |-> Iso(2022, 9, 30), start |-> Iso(2022, 1, 1),
       filed |-> Iso(2022, 12, 20), val |-> Whole(220)],
      \* 60 days, on an interim form of a foreign filer
      [form |-> "6-K", end |-> Iso(2022, 6, 30), start |-> Iso(2022, 5, 1),
       filed |-> Iso(2022, 8, 1), val |-> Whole(230)],
      \* a fourth quarter reported in the 10-K
      [form |-> "10-K", end |-> Iso(2022, 12, 31), start |-> Iso(2022, 10, 1),
       filed |-> Iso(2023, 2, 1), val |-> Whole(240)],
      \* 110 days
      [form |-> "10-Q", end |-> Iso(2022, 9, 30), start |-> Iso(2022, 6, 12),
       filed |-> Iso(2022, 11, 5), val |-> Whole(250)],
      \* 111 days
      [form |-> "10-Q", end |-> Iso(2022, 9, 30), start |-> Iso(2022, 6, 11),
       filed |-> Iso(2022, 12, 25), val |-> Whole(260)],
      \* 59 days
      [form |-> "10-Q", end |-> Iso(2022, 6, 30), start |-> Iso(2022, 5, 2),
       filed |-> Iso(2022, 8, 20), val |-> Whole(270)] }

\* Raw values the unit conversion is fed.
ValuePool ==
    {Dec(1234567891, 3), Dec(234567, 5), Whole(1000000000), Whole(1500), Whole(0 - 2500000)}

\* One well-formed annual observation of fiscal 2022 with value v.
Fy2022(v) ==
    [form |-> "10-K", end |-> Iso(2022, 12, 31), start |-> Iso(2022, 1, 1),
     filed |-> Iso(2023, 2, 1), val |-> v]

\* An annual observation of 92 days: the span filter drops it.
Stub2022 ==
    [form |-> "10-K", end |-> Iso(2022, 12, 31), start |-> Iso(2022, 10, 1),
     filed |-> Iso(2023, 2, 1), val |-> Whole(5000000)]

SeqsUpTo(S, n) ==
    UNION {[1..k -> S] : k \in 0..n}

\* Every dict with keys among K and values in V.
Dicts(K, V) ==
    UNION {[D -> V] : D \in SUBSET K}

Locals0 ==
    /\ pc = "loop"
    /\ ns_i = 0
    /\ todo = <<>>
    /\ concept = <<>>
    /\ stmt = ""
    /\ unit_type = ""
    /\ raw = <<>>
    /\ filtered = <<>>
    /\ idx = 0
    /\ period_map = EmptyDict
    /\ result = EmptyDict
    /\ by_stmt = EmptyDict
    /\ origin = EmptyDict
    /\ source = EmptyDict
    /\ series = EmptyDict

\* One concept of us-gaap with one USD bucket: every raw list up to MaxObs
\* for the income-statement concept, one observation fewer for the
\* balance-sheet concept.
InitReconcile ==
    /\ is_annual \in BOOLEAN
    /\ cutoff_date = Iso(2020, 1, 1)
    /\ \E c \in {NetIncomeLoss, Assets} :
       \E lst \in SeqsUpTo(IF is_annual THEN AnnualPool ELSE QuarterlyPool,
                           IF c = Assets THEN MaxObs - 1 ELSE MaxObs) :
          facts = [n \in {"us-gaap"} |-> <<[concept |-> c, units |-> [u \in {"USD"} |-> lst]]>>]

\* One concept of us-gaap with every combination of unit buckets.
InitUnits ==
    /\ is_annual = TRUE
    /\ cutoff_date = Iso(2020, 1, 1)
    /\ \E c \in {NetIncomeLoss, EarningsPerShareBasic, CommonStockSharesOutstanding} :
       \E main \in Dicts({"USD", "USD/shares", "shares"},
                         {<<>>} \cup {<<Fy2022(v)>> : v \in ValuePool}) :
       \E other \in Dicts({"EUR"}, {<<Fy2022(Whole(7000000))>>}) :
          facts = [n \in {"us-gaap"} |-> <<[concept |-> c, units |-> main @@ other]>>]

\* What a namespace can file for concept c in InitNamespaces: one observation
\* whose value tells the namespaces apart, or one the span filter drops.
Filings(n, c) ==
    {[concept |-> c,
      units |-> [u \in {"USD"} |->
                   <<Fy2022(Whole(IF n = "us-gaap" THEN 100000000 ELSE 200000000))>>]]}
    \cup (IF c = NetIncomeLoss
          THEN {[concept |-> c, units |-> [u \in {"USD"} |-> <<Stub2022>>]]}
          ELSE {})

\* The concept lists a namespace can hold: up to MaxConcepts distinct concepts.
ConceptLists(n) ==
    {l \in SeqsUpTo(UNION {Filings(n, c) : c \in {NetIncomeLoss, Assets,
                                                   EntityPublicFloat, DocumentType}},
                    MaxConcepts) :
        \A i, j \in DOMAIN l : i # j => l[i].concept # l[j].concept}

\* Both namespaces, each absent or holding a list of concepts.
InitNamespaces ==
    /\ is_annual = TRUE
    /\ cutoff_date = Iso(2020, 1, 1)
    /\ \E present \in SUBSET {"us-gaap", "dei"} :
          facts \in {f \in [present -> ConceptLists("us-gaap") \cup ConceptLists("dei")] :
                        \A n \in present : f[n] \in ConceptLists(n)}

\* An entity whose whole raw store is one or two income-statement concepts of
\* us-gaap, each with the single 10-K observation of fiscal 2022 in USD.  The
\* cutoffs are those main passes, January 1st of a year 5 to 20 years back:
\* here a year long before, the year of, and the year after fiscal 2022.
InitEndToEnd ==
    /\ is_annual \in BOOLEAN
    /\ cutoff_date \in {Iso(2007, 1, 1), Iso(2022, 1, 1), Iso(2023, 1, 1)}
    /\ \E l \in SeqsUpTo({NetIncomeLoss, OperatingIncomeLoss,
                          DepreciationDepletionAndAmortization}, 2) :
          /\ l # <<>>
          /\ \A i, j \in DOMAIN l : i # j => l[i] # l[j]
          /\ facts = [n \in {"us-gaap"} |->
                        [i \in DOMAIN l |->
                           [concept |-> l[i],
                            units |-> [u \in {"USD"} |->
                                         <<Fy2022(Whole(1000000000))>>]]]]

Init ==
    /\ Locals0
    /\ SortIdle
    /\ MinerIdle
    /\ MainIdle
    /\ \/ InitReconcile
       \/ InitUnits
       \/ InitNamespaces
       \/ InitEndToEnd

(***************************************************************************)
(* Actions: one per step of extract_concepts                               *)
(***************************************************************************)

\* The (concept, concept_data) pair the concept loop visits next.
item ==
    Head(todo)

\* `for ns in [...]: ns_facts = facts.get(ns, {})`: enter the next namespace.
NextNamespace ==
    /\ pc = "loop"
    /\ todo = <<>>
    /\ ns_i < Len(NamespaceOrder)
    /\ ns_i' = ns_i + 1
    /\ todo' = Get(facts, NamespaceOrder[ns_i + 1], <<>>)
    /\ UNCHANGED <<inputs, pc, concept, stmt, unit_type, raw, filtered, idx,
                   period_map, result, by_stmt, origin, source, series>>
    /\ UNCHANGED others

\* `if concept in EXCLUDE_CONCEPTS: continue`
SkipExcluded ==
    /\ pc = "loop"
    /\ todo # <<>>
    /\ item.concept \in EXCLUDE_CONCEPTS
    /\ concept' = item.concept
    /\ todo' = Tail(todo)
    /\ UNCHANGED <<inputs, pc, ns_i, stmt, unit_type, raw, filtered, idx,
                   period_map, result, by_stmt, origin, source, series>>
    /\ UNCHANGED others

\* `stmt = CONCEPT_STATEMENT.get(concept); if stmt is None: continue`
SkipUnclassified ==
    /\ pc = "loop"
    /\ todo # <<>>
    /\ item.concept \notin EXCLUDE_CONCEPTS
    /\ Classify(item.concept) = "None"
    /\ concept' = item.concept
    /\ stmt' = "None"
    /\ todo' = Tail(todo)
    /\ UNCHANGED <<inputs, pc, ns_i, unit_type, raw, filtered, idx,
                   period_map, result, by_stmt, origin, source, series>>
    /\ UNCHANGED others

\* The `else: continue` of the unit bucket chain.
SkipNoUnits ==
    /\ pc = "loop"
    /\ todo # <<>>
    /\ item.concept \notin EXCLUDE_CONCEPTS
    /\ Classify(item.concept) # "None"
    /\ PickUnitType(item.units) = ""
    /\ concept' = item.concept
    /\ stmt' = Classify(item.concept)
    /\ todo' = Tail(todo)
    /\ UNCHANGED <<inputs, pc, ns_i, unit_type, raw, filtered, idx,
                   period_map, result, by_stmt, origin, source, series>>
    /\ UNCHANGED others

\* `if not filtered: continue`
SkipNoObservations ==
    /\ pc = "loop"
    /\ todo # <<>>
    /\ item.concept \notin EXCLUDE_CONCEPTS
    /\ Classify(item.concept) # "None"
    /\ PickUnitType(item.units) # ""
    /\ Filtered(item.units[PickUnitType(item.units)]) = <<>>
    /\ concept' = item.concept
    /\ stmt' = Classify(item.concept)
    /\ unit_type' = PickUnitType(item.units)
    /\ raw' = item.units[PickUnitType(item.units)]
    /\ filtered' = <<>>
    /\ todo' = Tail(todo)
    /\ UNCHANGED <<inputs, pc, ns_i, idx, period_map, result, by_stmt,
                   origin, source, series>>
    /\ UNCHANGED others

\* The concept passes every check: `period_map = {}` and the loop starts.
BeginConcept ==
    /\ pc = "loop"
    /\ todo # <<>>
    /\ item.concept \notin EXCLUDE_CONCEPTS
    /\ Classify(item.concept) # "None"
    /\ PickUnitType(item.units) # ""
    /\ Filtered(item.units[PickUnitType(item.units)]) # <<>>
    /\ concept' = item.concept
    /\ stmt' = Classify(item.concept)
    /\ unit_type' = PickUnitType(item.units)
    /\ raw' = item.units[PickUnitType(item.units)]
    /\ filtered' = Filtered(item.units[PickUnitType(item.units)])
    /\ todo' = Tail(todo)
    /\ period_map' = EmptyDict
    /\ origin' = EmptyDict
    /\ idx' = 1
    /\ pc' = "obs"
    /\ UNCHANGED <<inputs, ns_i, result, by_stmt, source, series>>
    /\ UNCHANGED others

\* One iteration of `for e in filtered`.
ProcessObservation ==
    /\ pc = "obs"
    /\ idx <= Len(filtered)
    /\ LET e      == filtered[idx]
           end    == e["end"]
           filed  == Get(e, "filed", <<>>)
           val    == e["val"]
           pk     == period_key(end)
       IN  IF ~SpanFilterRejects(e, concept) /\ Supersedes(period_map, pk, filed)
           THEN /\ period_map' = Put(period_map, pk, [val |-> val, filed |-> filed])
                /\ origin' = Put(origin, pk, idx)
           ELSE UNCHANGED <<period_map, origin>>
    /\ idx' = idx + 1
    /\ UNCHANGED <<inputs, pc, ns_i, todo, concept, stmt, unit_type, raw, filtered,
                   result, by_stmt, source, series>>
    /\ UNCHANGED others

\* `if not period_map: continue`
SkipEmptyPeriodMap ==
    /\ pc = "obs"
    /\ idx > Len(filtered)
    /\ DOMAIN period_map = {}
    /\ pc' = "loop"
    /\ UNCHANGED <<inputs, ns_i, todo, concept, stmt, unit_type, raw, filtered, idx,
                   period_map, result, by_stmt, origin, source, series>>
    /\ UNCHANGED others

\* Unit conversion, label and the assignment into result.
StoreConcept ==
    /\ pc = "obs"
    /\ idx > Len(filtered)
    /\ DOMAIN period_map # {}
    /\ \E converted \in ConvertedOutcomes(period_map, concept, unit_type) :
          LET label == human_label(concept)
              key   == <<stmt, label>>
          IN  /\ series' = Put(series, <<ns, concept>>, converted)
              /\ IF MayStore(result, key, ns)
                 THEN /\ result' = Put(result, key, converted)
                      /\ source' = Put(source, key, [ns |-> ns, concept |-> concept])
                 ELSE UNCHANGED <<result, source>>
    /\ pc' = "loop"
    /\ UNCHANGED <<inputs, ns_i, todo, concept, stmt, unit_type, raw, filtered, idx,
                   period_map, by_stmt, origin>>
    /\ UNCHANGED others

\* The reshape into by_stmt and the return.
Reshape ==
    /\ pc = "loop"
    /\ todo = <<>>
    /\ ns_i = Len(NamespaceOrder)
    /\ by_stmt' = Reshaped(result)
    /\ pc' = "done"
    /\ UNCHANGED <<inputs, ns_i, todo, concept, stmt, unit_type, raw, filtered, idx,
                   period_map, result, origin, source, series>>
    /\ UNCHANGED others

Next ==
    \/ NextNamespace
    \/ SkipExcluded
    \/ SkipUnclassified
    \/ SkipNoUnits
    \/ SkipNoObservations
    \/ BeginConcept
    \/ ProcessObservation
    \/ SkipEmptyPeriodMap
    \/ StoreConcept
    \/ Reshape

Spec ==
    Init /\ [][Next]_vars

(***************************************************************************)
(* sort_statement and the three ordering calls of main                     *)
(***************************************************************************)

\* The labels of the statements the model feeds in, as human_label writes them.
Label ==
    [ Revenues |-> <<"R", "e", "v", "e", "n", "u", "e", "s">>,
      GrossProfit |-> <<"G", "r", "o", "s", "s", " ", "P", "r", "o", "f", "i",
          "t">>,
      NetIncomeLoss |-> <<"N", "e", "t", " ", "I", "n", "c", "o", "m", "e",
          " ", "L", "o", "s", "s">>,
      DepreciationOnly |-> <<"D", "e", "p", "r", "e", "c", "i", "a", "t", "i",
          "o", "n">>,
      RevenueNet |-> <<"R", "e", "v", "e", "n", "u", "e", " ", "N", "e", "t">>,
      Assets |-> <<"A", "s", "s", "e", "t", "s">>,
      Cash |-> <<"C", "a", "s", "h">>,
      PaymentsOfDividends |-> <<"P", "a", "y", "m", "e", "n", "t", "s", " ",
          "O", "f", " ", "D", "i", "v", "i", "d", "e", "n", "d", "s">>,
      GainLossOnDisposition |-> <<"G", "a", "i", "n", " ", "L", "o", "s", "s",
          " ", "O", "n", " ", "D", "i", "s", "p", "o", "s", "i", "t", "i",
          "o", "n", " ", "O", "f", " ", "A", "s", "s", "e", "t", "s">> ]

\* The preferred orders, restricted to the labels the model feeds in.
IS_ORDER ==
    <<Label.Revenues, Label.GrossProfit, Label.NetIncomeLoss>>

BS_ORDER ==
    <<Label.Assets>>

CF_ORDER ==
    <<Label.NetIncomeLoss, Label.PaymentsOfDividends>>

\* order_index = {label: i for i, label in enumerate(order)}: a label written
\* twice keeps its last index.
order_index(order) ==
    [l \in {order[i] : i \in DOMAIN order} |->
        (CHOOSE i \in DOMAIN order :
            order[i] = l /\ \A j \in DOMAIN order : order[j] = l => j <= i) - 1]

\* Faulty variant: the label is left out of the key.
sort_key_IndexOnly(label, order) ==
    <<Get(order_index(order), label, Len(order)), <<>>>>

\* sort_key(label) = (order_index.get(label, len(order)), label)
sort_key(label, order) ==
    <<Get(order_index(order), label, Len(order)), label>>

\* The comparison of two key tuples.
KeyLess(a, b) ==
    a[1] < b[1] \/ (a[1] = b[1] /\ StrLess(a[2], b[2]))

\* sorted() is stable: x goes behind every item whose key is not greater.
RECURSIVE InsertItem(_, _, _)
InsertItem(sq, x, order) ==
    IF sq = <<>> THEN <<x>>
    ELSE IF KeyLess(sort_key(x.label, order), sort_key(Head(sq).label, order))
         THEN <<x>> \o sq
         ELSE <<Head(sq)>> \o InsertItem(Tail(sq), x, order)

RECURSIVE SortedItems(_, _, _)
SortedItems(done, rest, order) ==
    IF rest = <<>> THEN done
    ELSE SortedItems(InsertItem(done, Head(rest), order), Tail(rest), order)

\* dict(sorted(data.items(), key=lambda x: sort_key(x[0])))
sort_statement(data, order) ==
    SortedItems(<<>>, data, order)

\* Most line items of the income statement.
MaxItems ==
    3

\* Every insertion order of up to n line items, each a label of L with its
\* period map.
Insertions(L, n) ==
    {sq \in SeqsUpTo({[label |-> l, periods |-> (<<"2", "0", "2", "2">> :> Dec(Len(l), 3))]
                         : l \in L}, n) :
        \A i, j \in DOMAIN sq : i # j => sq[i] # sq[j]}

\* Statements as extract_concepts can return them, in any insertion order.
InitSort ==
    /\ \E is_items \in Insertions({Label.Revenues, Label.GrossProfit, Label.NetIncomeLoss,
                                   Label.DepreciationOnly, Label.RevenueNet}, MaxItems) :
       \E bs_items \in Insertions({Label.Assets, Label.Cash}, 2) :
       \E cf_items \in Insertions({Label.PaymentsOfDividends,
                                   Label.GainLossOnDisposition}, 2) :
          annual0 = [s \in Statements |->
                        IF s = "IS" THEN is_items
                        ELSE IF s = "BS" THEN bs_items ELSE cf_items]
    /\ annual = annual0
    /\ sort_i = 0

\* The extractor at rest, on an empty raw store.
ExtractIdle ==
    /\ Locals0
    /\ facts = EmptyDict
    /\ is_annual = TRUE
    /\ cutoff_date = Iso(2020, 1, 1)

InitSortSpec ==
    /\ ExtractIdle
    /\ MinerIdle
    /\ MainIdle
    /\ InitSort

\* annual["IS"] = sort_statement(annual["IS"], IS_ORDER)
SortIS ==
    /\ sort_i = 0
    /\ annual' = [annual EXCEPT !["IS"] = sort_statement(annual["IS"], IS_ORDER)]
    /\ sort_i' = 1
    /\ UNCHANGED <<annual0, extractVars, minerVars, mainVars>>

\* annual["BS"] = sort_statement(annual["BS"], BS_ORDER)
SortBS ==
    /\ sort_i = 1
    /\ annual' = [annual EXCEPT !["BS"] = sort_statement(annual["BS"], BS_ORDER)]
    /\ sort_i' = 2
    /\ UNCHANGED <<annual0, extractVars, minerVars, mainVars>>

\* annual["CF"] = sort_statement(annual["CF"], CF_ORDER)
SortCF ==
    /\ sort_i = 2
    /\ annual' = [annual EXCEPT !["CF"] = sort_statement(annual["CF"], CF_ORDER)]
    /\ sort_i' = 3
    /\ UNCHANGED <<annual0, extractVars, minerVars, mainVars>>

NextSort ==
    \/ SortIS
    \/ SortBS
    \/ SortCF

SpecSort ==
    InitSortSpec /\ [][NextSort]_vars

(***************************************************************************)
(* Tables: the DataFrame pd.read_html returns, its text and the quality    *)
(* gate.  A cell is NaN (an empty cell of the HTML table) or a str; a df   *)
(* is the matrix df.values, row by row.                                    *)
(***************************************************************************)

NaN ==
    [k |-> "nan"]

Text(s) ==
    [k |-> "str", s |-> s]

\* str(v)
CellStr(v) ==
    IF v.k = "nan" THEN <<"n", "a", "n">> ELSE v.s

\* `if v`: float('nan') is true, a str is true when it is not empty.
CellTruthy(v) ==
    v.k = "nan" \/ Len(v.s) > 0

\* repr(v), as str() of a list writes its elements.
CellRepr(v) ==
    IF v.k = "nan" THEN <<"n", "a", "n">> ELSE <<"'">> \o v.s \o <<"'">>

\* df.shape[0], df.shape[1], df.size
NRows(df) ==
    Len(df.rows)

NCols(df) ==
    df.ncols

Size(df) ==
    NRows(df) * NCols(df)

\* rows.flatten()
RECURSIVE Flatten(_)
Flatten(rows) ==
    IF rows = <<>> THEN <<>> ELSE Head(rows) \o Flatten(Tail(rows))

\* " ".join(str(v) for v in cells if v)
RECURSIVE JoinTruthy(_)
JoinTruthy(cells) ==
    IF cells = <<>> THEN <<>>
    ELSE IF ~CellTruthy(Head(cells)) THEN JoinTruthy(Tail(cells))
    ELSE LET rest == JoinTruthy(Tail(cells))
         IN  IF \E i \in DOMAIN Tail(cells) : CellTruthy(Tail(cells)[i])
             THEN CellStr(Head(cells)) \o <<" ">> \o rest
             ELSE CellStr(Head(cells))

\* re.IGNORECASE on the letters of the model.
Lowered(text) ==
    [i \in DOMAIN text |->
       IF IsUpper(text[i]) THEN AsciiChars[Ord(text[i]) + 26] ELSE text[i]]

\* The literal frag occurs in text.
Contains(text, frag) ==
    \E i \in 1..(Len(text) - Len(frag) + 1) :
        SubSeq(text, i, i + Len(frag) - 1) = frag

\* The alternatives of JUNK_PATTERN the model's cells can match, in lower case.
JUNK_PATTERN ==
    { <<"t", "a", "b", "l", "e", " ", "o", "f", " ", "c", "o", "n", "t", "e",
        "n", "t", "s">>,
      <<"k", "p", "m", "g">> }

\* JUNK_PATTERN.search(text)
JunkSearch(text) ==
    \E frag \in JUNK_PATTERN : Contains(Lowered(text), frag)

\* re.search(r"\d{2,}", text)
HasDigitRun(text) ==
    \E i \in 1..(Len(text) - 1) : IsDigit(text[i]) /\ IsDigit(text[i + 1])

\* str(v).strip() not in ("", "nan", "None")
CellNonEmpty(v) ==
    Strip(CellStr(v)) \notin {<<>>, <<"n", "a", "n">>, <<"N", "o", "n", "e">>}

\* df.iloc[:4].values
FirstRows(df, n) ==
    SubSeq(df.rows, 1, IF NRows(df) < n THEN NRows(df) ELSE n)

\* max(a, b)
Max(a, b) ==
    IF a >= b THEN a ELSE b

\* Faulty variant: the junk test left out.
is_useful_table_NoJunkTest(df) ==
    /\ ~(NRows(df) < 3 \/ NCols(df) < 2)
    /\ HasDigitRun(JoinTruthy(Flatten(df.rows)))
    /\ LET non_empty == Cardinality({i \in DOMAIN Flatten(df.rows) :
                                        CellNonEmpty(Flatten(df.rows)[i])})
       IN  100 * non_empty >= 15 * Max(Size(df), 1)

\* Faulty variant: the density threshold is strict.
is_useful_table_StrictDensity(df) ==
    /\ ~(NRows(df) < 3 \/ NCols(df) < 2)
    /\ ~JunkSearch(JoinTruthy(Flatten(FirstRows(df, 4))))
    /\ HasDigitRun(JoinTruthy(Flatten(df.rows)))
    /\ LET non_empty == Cardinality({i \in DOMAIN Flatten(df.rows) :
                                        CellNonEmpty(Flatten(df.rows)[i])})
       IN  100 * non_empty > 15 * Max(Size(df), 1)

\* non_empty / max(df.size, 1) >= 0.15 is compared exactly: the quotient of
\* two small integers is never closer to 0.15 than a double resolves.
is_useful_table(df) ==
    /\ ~(NRows(df) < 3 \/ NCols(df) < 2)
    /\ ~JunkSearch(JoinTruthy(Flatten(FirstRows(df, 4))))
    /\ HasDigitRun(JoinTruthy(Flatten(df.rows)))
    /\ LET non_empty == Cardinality({i \in DOMAIN Flatten(df.rows) :
                                        CellNonEmpty(Flatten(df.rows)[i])})
       IN  100 * non_empty >= 15 * Max(Size(df), 1)

\* ", ".join(parts)
RECURSIVE JoinComma(_)
JoinComma(parts) ==
    IF parts = <<>> THEN <<>>
    ELSE IF Len(parts) = 1 THEN Head(parts)
    ELSE Head(parts) \o <<",", " ">> \o JoinComma(Tail(parts))

\* str(a_list)
ListStr(parts) ==
    <<"[">> \o JoinComma(parts) \o <<"]">>

\* str(df.values.tolist())
Serialized(df) ==
    ListStr([r \in DOMAIN df.rows |->
               ListStr([c \in DOMAIN df.rows[r] |-> CellRepr(df.rows[r][c])])])

\* The length of the [:300] slice.
FingerprintLen ==
    300

\* Faulty variant: the whole serialization is the fingerprint.
Fingerprint_Whole(df) ==
    Serialized(df)

\* str(df.values.tolist())[:300]
Fingerprint(df) ==
    Prefix(Serialized(df), FingerprintLen)

\* df.dropna(how="all").fillna("")
Cleaned(df) ==
    LET kept == SelectSeq(df.rows, LAMBDA row : \E c \in DOMAIN row : row[c] # NaN)
    IN  [ncols |-> df.ncols,
         rows  |-> [r \in DOMAIN kept |->
                      [c \in DOMAIN kept[r] |->
                         IF kept[r][c] = NaN THEN Text(<<>>) ELSE kept[r][c]]]]

\* The texts of the cells.
CellText ==
    [ Segment |-> <<"S", "e", "g", "m", "e", "n", "t">>,
      Year |-> <<"2", "0", "2", "2">>,
      Americas |-> <<"A", "m", "e", "r", "i", "c", "a", "s">>,
      Europe |-> <<"E", "u", "r", "o", "p", "e">>,
      Amount120 |-> <<"1", "2", "0">>,
      Amount340 |-> <<"3", "4", "0">>,
      Amount1200 |-> <<"1", "2", "0", "0">>,
      Amount1250 |-> <<"1", "2", "5", "0">>,
      Amount1260 |-> <<"1", "2", "6", "0">>,
      TableOfContents |-> <<"T", "a", "b", "l", "e", " ", "o", "f", " ", "C",
          "o", "n", "t", "e", "n", "t", "s">>,
      Seven |-> <<"7">>,
      LongCaption |-> <<"R", "e", "v", "e", "n", "u", "e", " ", "f", "r", "o",
          "m", " ", "e", "x", "t", "e", "r", "n", "a", "l", " ", "c", "u",
          "s", "t", "o", "m", "e", "r", "s", " ", "b", "y", " ", "g", "e",
          "o", "g", "r", "a", "p", "h", "i", "c", " ", "r", "e", "g", "i",
          "o", "n">> ]

\* The tables of the documents.  Segment: a caption row and two data rows;
\* SegmentPadded: the same followed by an empty row; Contents: navigation
\* boilerplate with page numbers; Region and RegionRestated: five rows whose
\* serializations agree on more than the first FingerprintLen characters and
\* differ in the last amount.
Table ==
    LET segment == << <<Text(CellText.Segment), Text(CellText.Year)>>,
                      <<Text(CellText.Americas), Text(CellText.Amount120)>>,
                      <<Text(CellText.Europe), Text(CellText.Amount340)>> >>
        region(last) == [r \in 1..5 |->
                           <<Text(CellText.LongCaption),
                             Text(IF r = 5 THEN last ELSE CellText.Amount1200)>>]
    IN  [ Segment |-> [ncols |-> 2, rows |-> segment],
          SegmentPadded |-> [ncols |-> 2, rows |-> segment \o << <<NaN, NaN>> >>],
          Contents |->
              [ncols |-> 2,
               rows  |-> << <<Text(CellText.TableOfContents), NaN>>,
                            <<Text(CellText.Segment), Text(CellText.Amount120)>>,
                            <<Text(CellText.Europe), Text(CellText.Amount340)>> >>],
          Region |-> [ncols |-> 2, rows |-> region(CellText.Amount1250)],
          RegionRestated |-> [ncols |-> 2, rows |-> region(CellText.Amount1260)] ]

(***************************************************************************)
(* fetch_filing_html, extract_tables_from_html and fetch_segment_data      *)
(***************************************************************************)

\* The text of a response: an empty body, or a page with the tables the
\* keyword walk of extract_tables_from_html locates and pd.read_html parses,
\* in the order it reaches them (a table near two matches is reached twice).
EmptyBody ==
    [none |-> FALSE, empty |-> TRUE, tables |-> <<>>]

Page(tables) ==
    [none |-> FALSE, empty |-> FALSE, tables |-> tables]

\* requests.get raised (timeout, connection error).
Raised ==
    [raised |-> TRUE, status |-> 0, text |-> EmptyBody]

Response(status, text) ==
    [raised |-> FALSE, status |-> status, text |-> text]

\* Faulty variant: the status code is not looked at.
fetch_filing_html_AnyStatus(resp) ==
    IF ~resp.raised THEN resp.text ELSE NoneHtml

\* r.text on status 200, None on any other status or on an exception.
fetch_filing_html(resp) ==
    IF ~resp.raised /\ resp.status = 200 THEN resp.text ELSE NoneHtml

\* `not html`
NotHtml(h) ==
    h.none \/ h.empty

\* Faulty variant: no memory of the tables of earlier documents.
NewInRun_Always(key, st) ==
    TRUE

\* `key not in seen_tables`
NewInRun(key, st) ==
    key \notin st

\* `fp not in seen`
NewInDocument(fp, sn) ==
    fp \notin sn

\* filings[:max_filings]
Scanned ==
    Prefix(filings, max_filings)

\* Most filings in the list.
MaxFilings ==
    3

\* What the server can answer for a document.
ResponsePool ==
    { Raised,
      \* an error page that carries a table
      Response(404, Page(<<Table.Segment>>)),
      Response(200, EmptyBody),
      \* one table near two keyword matches
      Response(200, Page(<<Table.Segment, Table.Segment>>)),
      Response(200, Page(<<Table.Contents, Table.SegmentPadded>>)),
      Response(200, Page(<<Table.RegionRestated, Table.Region>>)) }

\* The filing list main passes: newest first, one filing a year.
FilingList(n) ==
    [k \in 1..n |-> [date |-> Iso(2024 - k, 2, 1), accession |-> k]]

\* A mining run over up to MaxFilings filings.
InitMining ==
    /\ \E n \in 0..MaxFilings :
          /\ filings = FilingList(n)
          /\ web \in [1..n -> ResponsePool]
    /\ max_filings \in {MaxFilings - 1, MaxFilings}

\* Faulty variant: the index is sorted oldest first.
sorted_filings_Ascending(index) ==
    LET place(i) == 1 + Cardinality({j \in DOMAIN index :
                                       \/ StrLess(index[j].date, index[i].date)
                                       \/ index[j].date = index[i].date /\ j < i})
    IN  [p \in DOMAIN index |-> index[CHOOSE i \in DOMAIN index : place(i) = p]]

\* sorted(index, key=lambda x: x["date"], reverse=True): the filings by
\* descending date string; the sort is stable, so filings of one date keep
\* the order of the index.
sorted_filings(index) ==
    LET place(i) == 1 + Cardinality({j \in DOMAIN index :
                                       \/ StrLess(index[i].date, index[j].date)
                                       \/ index[j].date = index[i].date /\ j < i})
    IN  [p \in DOMAIN index |-> index[CHOOSE i \in DOMAIN index : place(i) = p]]

\* A mining run as main starts it: the filing index in any order of dates,
\* sorted by main, each document failing or holding the segment table.
InitOrder ==
    /\ \E n \in 0..MaxFilings :
       \E d \in [1..n -> {Iso(2022, 11, 1), Iso(2023, 2, 1)}] :
          /\ filings = sorted_filings([k \in 1..n |-> [date |-> d[k], accession |-> k]])
          /\ web \in [1..n -> {Raised, Response(200, Page(<<Table.Segment>>))}]
    /\ max_filings \in {MaxFilings - 1, MaxFilings}

\* The shapes and fillings of the tables the quality gate is tried on.
MaxRows ==
    5

MaxCols ==
    4

MaxFilled ==
    3

\* The table of r rows and c columns that is empty except for the cells vs,
\* written row by row from the first cell of row `from`.
Grid(r, c, from, vs) ==
    [ncols |-> c,
     rows  |-> [i \in 1..r |->
                  [j \in 1..c |->
                     LET n == (i - 1) * c + j - (from - 1) * c
                     IN  IF n >= 1 /\ n <= Len(vs) THEN vs[n] ELSE NaN]]]

\* A run over one document that holds one such table.
InitGate ==
    /\ filings = FilingList(1)
    /\ max_filings = 1
    /\ \E r \in 1..MaxRows : \E c \in 1..MaxCols : \E from \in {1, 5} :
       \E vs \in SeqsUpTo({Text(CellText.Year), Text(CellText.Seven),
                           Text(CellText.TableOfContents)}, MaxFilled) :
          /\ from <= r
          /\ Len(vs) <= (r - from + 1) * c
          /\ web = <<Response(200, Page(<<Grid(r, c, from, vs)>>))>>

InitMinerSpec ==
    /\ ExtractIdle
    /\ SortIdle
    /\ MainIdle
    /\ \/ InitMining
       \/ InitOrder
       \/ InitGate
    /\ m_pc = "fetch"
    /\ fi = 1
    /\ html = NoneHtml
    /\ cand_i = 0
    /\ seen = {}
    /\ doc_results = <<>>
    /\ coll_i = 0
    /\ results = <<>>
    /\ seen_tables = {}
    /\ log = <<>>
    /\ gated = {}
    /\ found = <<>>

\* The document of the filing is fetched and is not empty: the keyword walk
\* starts with fresh `results` and `seen`.
FetchDocument ==
    /\ m_pc = "fetch"
    /\ fi <= Len(Scanned)
    /\ LET h == fetch_filing_html(web[Scanned[fi].accession])
       IN  /\ ~NotHtml(h)
           /\ html' = h
    /\ log' = Append(log, [e |-> "fetch", k |-> fi])
    /\ m_pc' = "extract"
    /\ cand_i' = 1
    /\ seen' = {}
    /\ doc_results' = <<>>
    /\ UNCHANGED <<filings, max_filings, web, fi, coll_i, results, seen_tables, gated, found>>
    /\ UNCHANGED <<extractVars, sortVars, mainVars>>

\* `if not html: continue`
FetchUnavailable ==
    /\ m_pc = "fetch"
    /\ fi <= Len(Scanned)
    /\ LET h == fetch_filing_html(web[Scanned[fi].accession])
       IN  /\ NotHtml(h)
           /\ html' = h
    /\ log' = Append(log, [e |-> "fetch", k |-> fi])
    /\ fi' = fi + 1
    /\ UNCHANGED <<filings, max_filings, web, m_pc, cand_i, seen, doc_results, coll_i, results,
                   seen_tables, gated, found>>
    /\ UNCHANGED <<extractVars, sortVars, mainVars>>

\* One located table: fingerprint, `fp not in seen and is_useful_table(df)`.
ExamineTable ==
    /\ m_pc = "extract"
    /\ cand_i <= Len(html.tables)
    /\ LET df == html.tables[cand_i]
           fp == Fingerprint(df)
       IN  /\ IF NewInDocument(fp, seen)
              THEN gated' = gated \cup {[df |-> df, useful |-> is_useful_table(df)]}
              ELSE UNCHANGED gated
           /\ IF NewInDocument(fp, seen) /\ is_useful_table(df)
              THEN /\ seen' = seen \cup {fp}
                   /\ doc_results' = Append(doc_results, df)
              ELSE UNCHANGED <<seen, doc_results>>
    /\ cand_i' = cand_i + 1
    /\ UNCHANGED <<filings, max_filings, web, m_pc, fi, html, coll_i, results, seen_tables, log, found>>
    /\ UNCHANGED <<extractVars, sortVars, mainVars>>

\* extract_tables_from_html returns; the loop over its tables starts.
ReturnTables ==
    /\ m_pc = "extract"
    /\ cand_i > Len(html.tables)
    /\ m_pc' = "collect"
    /\ coll_i' = 1
    /\ UNCHANGED <<filings, max_filings, web, fi, html, cand_i, seen, doc_results, results,
                   seen_tables, log, gated, found>>
    /\ UNCHANGED <<extractVars, sortVars, mainVars>>

\* One table of the document: `if key not in seen_tables: ... results.append`.
CollectTable ==
    /\ m_pc = "collect"
    /\ coll_i <= Len(doc_results)
    /\ LET df  == doc_results[coll_i]
           key == Fingerprint(df)
       IN  IF NewInRun(key, seen_tables)
           THEN /\ seen_tables' = seen_tables \cup {key}
                /\ results' = Append(results, [date |-> Scanned[fi].date,
                                               df |-> Cleaned(df)])
                /\ found' = Append(found, [raw |-> df, k |-> fi])
           ELSE UNCHANGED <<seen_tables, results, found>>
    /\ coll_i' = coll_i + 1
    /\ UNCHANGED <<filings, max_filings, web, m_pc, fi, html, cand_i, seen, doc_results, log, gated>>
    /\ UNCHANGED <<extractVars, sortVars, mainVars>>

\* time.sleep(0.3), the last statement of the iteration.
Sleep ==
    /\ m_pc = "collect"
    /\ coll_i > Len(doc_results)
    /\ log' = Append(log, [e |-> "sleep", k |-> fi])
    /\ fi' = fi + 1
    /\ m_pc' = "fetch"
    /\ UNCHANGED <<filings, max_filings, web, html, cand_i, seen, doc_results, coll_i, results,
                   seen_tables, gated, found>>
    /\ UNCHANGED <<extractVars, sortVars, mainVars>>

\* return results
ReturnResults ==
    /\ m_pc = "fetch"
    /\ fi > Len(Scanned)
    /\ m_pc' = "done"
    /\ UNCHANGED <<filings, max_filings, web, fi, html, cand_i, seen, doc_results, coll_i, results,
                   seen_tables, log, gated, found>>
    /\ UNCHANGED <<extractVars, sortVars, mainVars>>

NextMiner ==
    \/ FetchDocument
    \/ FetchUnavailable
    \/ ExamineTable
    \/ ReturnTables
    \/ CollectTable
    \/ Sleep
    \/ ReturnResults

SpecMiner ==
    InitMinerSpec /\ [][NextMiner]_vars

(***************************************************************************)
(* main                                                                    *)
(***************************************************************************)

\* str.upper() on the letters of the model.
Upper(text) ==
    [i \in DOMAIN text |->
       IF IsLower(text[i]) THEN AsciiChars[Ord(text[i]) - 26] ELSE text[i]]

\* str.zfill(width)
RECURSIVE Zfill(_, _)
Zfill(text, width) ==
    IF Len(text) >= width THEN text ELSE Zfill(<<"0">> \o text, width)

\* Faulty variant: a ticker without a match gets the zero-filled empty CIK.
get_cik_ZeroFilled(tk, table) ==
    LET hits == {i \in DOMAIN table : Upper(table[i].ticker) = Upper(tk)}
    IN  IF hits = {} THEN Zfill(<<>>, 10)
        ELSE Zfill(table[CHOOSE i \in hits : \A j \in hits : i <= j].cik_str, 10)

\* The first entry of the table whose upper-cased ticker is the upper-cased
\* tk: its cik_str filled to ten digits; None (here <<>>) without a match.
get_cik(tk, table) ==
    LET hits == {i \in DOMAIN table : Upper(table[i].ticker) = Upper(tk)}
    IN  IF hits = {} THEN <<>>
        ELSE Zfill(table[CHOOSE i \in hits : \A j \in hits : i <= j].cik_str, 10)

\* The tickers typed in, and the lookup table's entries.
Ticker ==
    [ AAPL |-> <<"A", "A", "P", "L">>,
      MSFT |-> <<"M", "S", "F", "T">>,
      HALO |-> <<"H", "A", "L", "O">> ]

\* A run of main: the inputs of the sidebar, the lookup table, and the call
\* that raises, if any: one of the three fetches before the extraction, the
\* two extractions (a value that is no number) and the fetch of the filing
\* index.
InitMain ==
    /\ run_btn \in BOOLEAN
    /\ ticker \in {<<>>, Ticker.AAPL, Ticker.MSFT, Ticker.HALO}
    /\ include_segments \in BOOLEAN
    /\ company_tickers \in SeqsUpTo(
           { [ticker |-> Ticker.AAPL, cik_str |-> <<"3", "2", "0", "1", "9", "3">>],
             [ticker |-> <<"m", "s", "f", "t">>,
              cik_str |-> <<"7", "8", "9", "0", "1", "9">>] }, 2)
    /\ failing \in {"", "get_cik", "get_company_name", "get_xbrl_facts",
                     "extract_annual", "extract_quarterly", "get_filings_index"}
    /\ main_pc = "start"
    /\ cik = <<>>
    /\ steps = <<>>
    /\ shown = <<>>
    /\ delivered = FALSE

InitMainSpec ==
    /\ ExtractIdle
    /\ SortIdle
    /\ MinerIdle
    /\ InitMain

\* The call named `call` is started; it raises when it is the failing one,
\* and control passes to the except clause, else to `next`.
Call(call, next) ==
    /\ steps' = Append(steps, call)
    /\ main_pc' = IF failing = call THEN "except" ELSE next

\* `if not run_btn or not ticker:` st.info(...) and return.
ShowInfo ==
    /\ main_pc = "start"
    /\ ~run_btn \/ ~Truthy(ticker)
    /\ shown' = Append(shown, "info")
    /\ main_pc' = "returned"
    /\ UNCHANGED <<run_btn, ticker, include_segments, company_tickers, failing,
                 cik, steps, delivered>>
    /\ UNCHANGED <<extractVars, sortVars, minerVars>>

\* cik = get_cik(ticker)
LookUpCik ==
    /\ main_pc = "start"
    /\ run_btn /\ Truthy(ticker)
    /\ Call("get_cik", "check_cik")
    /\ cik' = IF failing = "get_cik" THEN cik ELSE get_cik(ticker, company_tickers)
    /\ UNCHANGED <<run_btn, ticker, include_segments, company_tickers, failing,
                 shown, delivered>>
    /\ UNCHANGED <<extractVars, sortVars, minerVars>>

\* `if not cik:` st.error("Could not find CIK ...") and return.
NotFound ==
    /\ main_pc = "check_cik"
    /\ ~Truthy(cik)
    /\ shown' = Append(shown, "error: could not find CIK")
    /\ main_pc' = "returned"
    /\ UNCHANGED <<run_btn, ticker, include_segments, company_tickers, failing,
                 cik, steps, delivered>>
    /\ UNCHANGED <<extractVars, sortVars, minerVars>>

\* company_name = get_company_name(cik); st.success(...)
FetchCompanyName ==
    /\ main_pc = "check_cik"
    /\ Truthy(cik)
    /\ Call("get_company_name", "facts")
    /\ shown' = IF failing = "get_company_name" THEN shown ELSE Append(shown, "success")
    /\ UNCHANGED <<run_btn, ticker, include_segments, company_tickers, failing,
                 cik, delivered>>
    /\ UNCHANGED <<extractVars, sortVars, minerVars>>

\* facts = get_xbrl_facts(cik)
FetchFacts ==
    /\ main_pc = "facts"
    /\ Call("get_xbrl_facts", "annual")
    /\ UNCHANGED <<run_btn, ticker, include_segments, company_tickers, failing,
                 cik, shown, delivered>>
    /\ UNCHANGED <<extractVars, sortVars, minerVars>>

\* annual = extract_concepts(facts, is_annual=True, ...)
ExtractAnnual ==
    /\ main_pc = "annual"
    /\ Call("extract_annual", "quarterly")
    /\ UNCHANGED <<run_btn, ticker, include_segments, company_tickers, failing,
                 cik, shown, delivered>>
    /\ UNCHANGED <<extractVars, sortVars, minerVars>>

\* qtr = extract_concepts(facts, is_annual=False, ...)
ExtractQuarterly ==
    /\ main_pc = "quarterly"
    /\ Call("extract_quarterly", "sort")
    /\ UNCHANGED <<run_btn, ticker, include_segments, company_tickers, failing,
                 cik, shown, delivered>>
    /\ UNCHANGED <<extractVars, sortVars, minerVars>>

\* The six sort_statement calls: the statement output is complete.
SortStatements ==
    /\ main_pc = "sort"
    /\ Call("sort_statement", "segments")
    /\ UNCHANGED <<run_btn, ticker, include_segments, company_tickers, failing,
                 cik, shown, delivered>>
    /\ UNCHANGED <<extractVars, sortVars, minerVars>>

\* `if include_segments:` all_filings = sorted(get_filings_index(...))
FetchFilingsIndex ==
    /\ main_pc = "segments"
    /\ include_segments
    /\ Call("get_filings_index", "mine")
    /\ UNCHANGED <<run_btn, ticker, include_segments, company_tickers, failing,
                 cik, shown, delivered>>
    /\ UNCHANGED <<extractVars, sortVars, minerVars>>

\* segment_tables = fetch_segment_data(cik, all_filings, max_seg)
MineTables ==
    /\ main_pc = "mine"
    /\ Call("fetch_segment_data", "workbook")
    /\ UNCHANGED <<run_btn, ticker, include_segments, company_tickers, failing,
                 cik, shown, delivered>>
    /\ UNCHANGED <<extractVars, sortVars, minerVars>>

\* The checkbox is off: segment_tables stays empty.
SkipSegments ==
    /\ main_pc = "segments"
    /\ ~include_segments
    /\ main_pc' = "workbook"
    /\ UNCHANGED <<run_btn, ticker, include_segments, company_tickers, failing,
                 cik, steps, shown, delivered>>
    /\ UNCHANGED <<extractVars, sortVars, minerVars>>

\* The workbook is built and offered by st.download_button; the previews
\* follow and main returns.
BuildWorkbook ==
    /\ main_pc = "workbook"
    /\ steps' = Append(steps, "workbook")
    /\ delivered' = TRUE
    /\ main_pc' = "returned"
    /\ UNCHANGED <<run_btn, ticker, include_segments, company_tickers, failing,
                 cik, shown>>
    /\ UNCHANGED <<extractVars, sortVars, minerVars>>

\* except Exception as e: st.error(f"Error: {e}")
HandleException ==
    /\ main_pc = "except"
    /\ shown' = Append(shown, "error: exception")
    /\ main_pc' = "returned"
    /\ UNCHANGED <<run_btn, ticker, include_segments, company_tickers, failing,
                 cik, steps, delivered>>
    /\ UNCHANGED <<extractVars, sortVars, minerVars>>

NextMain ==
    \/ ShowInfo
    \/ LookUpCik
    \/ NotFound
    \/ FetchCompanyName
    \/ FetchFacts
    \/ ExtractAnnual
    \/ ExtractQuarterly
    \/ SortStatements
    \/ FetchFilingsIndex
    \/ MineTables
    \/ SkipSegments
    \/ BuildWorkbook
    \/ HandleException

SpecMain ==
    InitMainSpec /\ [][NextMain]_vars

(***************************************************************************)
(* Vocabulary of the properties                                            *)
(***************************************************************************)

\* The period_map loop has consumed the whole of filtered.
LoopFinished ==
    pc = "obs" /\ idx > Len(filtered)

\* Indices of the observations of filtered the loop has consumed.
Consumed ==
    {i \in 1..Len(filtered) : i < idx}

\* The consumed observations the span filter let through.
Survivors ==
    {i \in Consumed : ~SpanFilterRejects(filtered[i], concept)}

\* The (val, filed) pair observation e would leave in period_map.
PairOf(e) ==
    [val |-> e["val"], filed |-> Get(e, "filed", <<>>)]

\* The PeriodKey of the data model: the four-digit year of the period end for
\* annual frequency, the ISO end date for quarterly frequency.
PeriodKeyOf(e) ==
    IF is_annual THEN <<e["end"][1], e["end"][2], e["end"][3], e["end"][4]>>
    ELSE e["end"]

\* Observation a was filed on a later calendar day than observation b.
FiledLater(a, b) ==
    /\ "filed" \in DOMAIN a
    /\ "filed" \in DOMAIN b
    /\ Timestamp(a["filed"]).ok
    /\ Timestamp(b["filed"]).ok
    /\ Timestamp(a["filed"]).days > Timestamp(b["filed"]).days

(***************************************************************************)
(* C1                                                                      *)
(***************************************************************************)

\* C1: whatever observations the period_map loop has processed, period_map
\* holds exactly the PeriodKeys of the observations that survived the span
\* filter, and under each key one (val, filed) pair, which is the pair of one
\* surviving observation of that period.
C1_OneValuePerPeriodKey ==
    pc = "obs" =>
        /\ DOMAIN period_map = {PeriodKeyOf(filtered[i]) : i \in Survivors}
        /\ \A pk \in DOMAIN period_map :
              \E i \in Survivors :
                 /\ PeriodKeyOf(filtered[i]) = pk
                 /\ period_map[pk] = PairOf(filtered[i])

\* Three observations processed, two of them of one period, two periods kept.
C1_Witness ==
    /\ LoopFinished
    /\ Cardinality(Survivors) = 3
    /\ Cardinality(DOMAIN period_map) = 2

(***************************************************************************)
(* C2                                                                      *)
(***************************************************************************)

\* C2: last-filed-wins.  Of two surviving observations of one PeriodKey filed
\* on different days, the earlier one is never the retained one: the retained
\* pair is filed no earlier than any survivor of the period, wherever in the
\* input list the later filing stands.
C2_LastFiledWins ==
    pc = "obs" =>
        \A i \in Survivors : \A j \in Survivors :
           (/\ PeriodKeyOf(filtered[i]) = PeriodKeyOf(filtered[j])
            /\ FiledLater(filtered[j], filtered[i]))
           => /\ PeriodKeyOf(filtered[i]) \in DOMAIN period_map
              /\ period_map[PeriodKeyOf(filtered[i])] # PairOf(filtered[i])
              /\ ~StrLess(period_map[PeriodKeyOf(filtered[i])].filed, filtered[j]["filed"])

\* The later filing comes first in the input and is the one retained.
C2_Witness ==
    /\ LoopFinished
    /\ \E i \in Survivors : \E j \in Survivors :
          /\ i < j
          /\ PeriodKeyOf(filtered[i]) = PeriodKeyOf(filtered[j])
          /\ FiledLater(filtered[i], filtered[j])
          /\ period_map[PeriodKeyOf(filtered[i])] = PairOf(filtered[i])

(***************************************************************************)
(* C3                                                                      *)
(***************************************************************************)

Year2022 ==
    <<"2", "0", "2", "2">>

\* C3: an annual run over the original filing (filed 2023-02-01, val 100)
\* followed by its amendment (form 10-K/A, filed 2023-05-01, val 110)
\* reconciles fiscal 2022 to the amendment's value, 110.
C3_AmendmentSupersedes ==
    (/\ LoopFinished
     /\ is_annual
     /\ raw = <<OriginalFiling, AmendmentFiling>>)
    => /\ Year2022 \in DOMAIN period_map
       /\ period_map[Year2022].val = Whole(110)

(***************************************************************************)
(* C4                                                                      *)
(***************************************************************************)

\* Observation e has a start date.
HasStart(e) ==
    "start" \in DOMAIN e /\ e["start"] # <<>>

\* Both dates of e are calendar dates.
DatesParse(e) ==
    Timestamp(e["end"]).ok /\ Timestamp(e["start"]).ok

\* (end - start) in days lies in the window of the frequency.
SpanInWindow(e) ==
    /\ DatesParse(e)
    /\ LET span == Timestamp(e["end"]).days - Timestamp(e["start"]).days
       IN  IF is_annual THEN 300 <= span /\ span <= 400
           ELSE 60 <= span /\ span <= 110

\* The observation whose pair stands under pk.
Contributor(pk) ==
    filtered[origin[pk]]

\* C4 as first stated: every observation that contributes a value and has a
\* start date has its span in the window; only a missing start date exempts.
C4_SpanOnlyStartExempt ==
    pc = "obs" =>
        \A pk \in DOMAIN period_map :
           HasStart(Contributor(pk)) => SpanInWindow(Contributor(pk))

\* C4, amended: every observation that contributes a value, has a start date,
\* belongs to a concept that is not a balance-sheet concept and has two
\* parseable dates has its span in the window (300..400 days annual, 60..110
\* quarterly); and origin names the observation that wrote each entry.
C4_SpanFilter ==
    pc = "obs" =>
        \A pk \in DOMAIN period_map :
           /\ pk \in DOMAIN origin
           /\ origin[pk] \in Survivors
           /\ period_map[pk] = PairOf(Contributor(pk))
           /\ (/\ HasStart(Contributor(pk))
               /\ CONCEPT_STATEMENT[concept] # "BS"
               /\ DatesParse(Contributor(pk)))
              => SpanInWindow(Contributor(pk))

\* An income-statement run that kept an observation with a start date while
\* a later-filed observation of the same period fell outside the window.
C4_Witness ==
    /\ LoopFinished
    /\ CONCEPT_STATEMENT[concept] = "IS"
    /\ \E pk \in DOMAIN period_map :
          /\ HasStart(Contributor(pk))
          /\ DatesParse(Contributor(pk))
          /\ \E i \in Consumed :
                /\ PeriodKeyOf(filtered[i]) = pk
                /\ HasStart(filtered[i])
                /\ DatesParse(filtered[i])
                /\ ~SpanInWindow(filtered[i])
                /\ FiledLater(filtered[i], Contributor(pk))

(***************************************************************************)
(* C5                                                                      *)
(***************************************************************************)

\* The forms of the frequency: annual 10-K and 20-F, quarterly 10-Q and 6-K.
FormsOfFrequency ==
    IF is_annual THEN {"10-K", "20-F"} ELSE {"10-Q", "6-K"}

\* C5: only observations filed under a form of the frequency reach the
\* period_map loop, and every entry of period_map was written by, and is the
\* pair of, such an observation of the raw list: an observation of another
\* form neither contributes a value nor supersedes one.
C5_FormFilter ==
    pc = "obs" =>
        /\ \A i \in 1..Len(filtered) :
              /\ "form" \in DOMAIN filtered[i]
              /\ filtered[i]["form"] \in FormsOfFrequency
        /\ \A pk \in DOMAIN period_map :
              /\ pk \in DOMAIN origin
              /\ period_map[pk] = PairOf(Contributor(pk))
              /\ Contributor(pk)["form"] \in FormsOfFrequency
              /\ \E k \in 1..Len(raw) : raw[k] = Contributor(pk)

\* The raw list holds an observation of another form, of the same period and
\* filed later than the retained one.
C5_Witness ==
    /\ LoopFinished
    /\ \E pk \in DOMAIN period_map :
       \E k \in 1..Len(raw) :
          /\ "form" \in DOMAIN raw[k]
          /\ raw[k]["form"] \notin FormsOfFrequency
          /\ "val" \in DOMAIN raw[k]
          /\ PeriodKeyOf(raw[k]) = pk
          /\ FiledLater(raw[k], Contributor(pk))

(***************************************************************************)
(* C6                                                                      *)
(***************************************************************************)

\* Computing the span of e raises: a date is present and is no calendar date.
SpanRaises(e) ==
    HasStart(e) /\ ~DatesParse(e)

\* C6: an observation whose span cannot be computed is kept: its PeriodKey is
\* in period_map, the retained pair of that period is filed no earlier than
\* it, and is its own pair when no other consumed observation of the period
\* is filed as late; the loop goes on to the observations after it.
C6_MalformedDatesRetained ==
    pc = "obs" =>
        \A i \in Consumed :
           SpanRaises(filtered[i]) =>
              /\ PeriodKeyOf(filtered[i]) \in DOMAIN period_map
              /\ ~StrLess(period_map[PeriodKeyOf(filtered[i])].filed,
                          PairOf(filtered[i]).filed)
              /\ (\A j \in Consumed \ {i} :
                     PeriodKeyOf(filtered[j]) = PeriodKeyOf(filtered[i])
                     => FiledLater(filtered[i], filtered[j]))
                 => period_map[PeriodKeyOf(filtered[i])] = PairOf(filtered[i])

\* A malformed observation in the middle of the list superseded an earlier
\* entry, and the observation after it was processed as well.
C6_Witness ==
    /\ LoopFinished
    /\ CONCEPT_STATEMENT[concept] = "IS"
    /\ Len(filtered) = 3
    /\ SpanRaises(filtered[2])
    /\ PeriodKeyOf(filtered[1]) = PeriodKeyOf(filtered[2])
    /\ period_map[PeriodKeyOf(filtered[2])] = PairOf(filtered[2])
    /\ PeriodKeyOf(filtered[3]) # PeriodKeyOf(filtered[2])
    /\ PeriodKeyOf(filtered[3]) \in DOMAIN period_map

(***************************************************************************)
(* C7                                                                      *)
(***************************************************************************)

\* The unit class of concept c read from bucket ut.
UnitClassOf(c, ut) ==
    IF c \in PER_SHARE_CONCEPTS \/ ut = "USD/shares" THEN "CurrencyPerShare"
    ELSE IF c \in SHARE_COUNT_CONCEPTS \/ ut = "shares" THEN "ShareCount"
    ELSE "Currency"

\* r has 3 decimals and lies within half a thousandth of v / 1,000,000.
IsMillionsOf(r, v) ==
    /\ r.e = 3
    /\ 2 * Abs(r.m * Pow10(v.e + 3) - v.m) <= Pow10(v.e + 3)

\* r is v unscaled, with no more than 4 decimals, within half a
\* ten-thousandth of v.
IsPerShareOf(r, v) ==
    IF v.e <= 4 THEN r = v
    ELSE /\ r.e = 4
         /\ 2 * Abs(r.m * Pow10(v.e - 4) - v.m) <= Pow10(v.e - 4)

\* The concept of the running iteration has just been converted and stored.
JustStored ==
    /\ pc \in {"loop", "done"}
    /\ ns_i >= 1
    /\ <<ns, concept>> \in DOMAIN series

\* C7: the series a concept produces holds, for every period of period_map,
\* the value divided by 1,000,000 and rounded to 3 decimals when the class is
\* Currency or ShareCount, and the unscaled value rounded to 4 decimals when
\* it is CurrencyPerShare; the class is per-share for a per-share concept or
\* the USD/shares bucket, share-count for a share-count concept or the shares
\* bucket, currency otherwise.  Currency 1,234,567.891 gives 1.235 and
\* CurrencyPerShare 2.34567 gives 2.3457.
C7_UnitNormalization ==
    JustStored =>
        LET out == series[<<ns, concept>>]
            cls == UnitClassOf(concept, unit_type)
        IN  /\ DOMAIN out = DOMAIN period_map
            /\ \A pk \in DOMAIN out :
                  LET v == period_map[pk].val
                  IN  /\ cls = "CurrencyPerShare" => IsPerShareOf(out[pk], v)
                      /\ cls \in {"Currency", "ShareCount"} => IsMillionsOf(out[pk], v)
                      /\ (cls = "Currency" /\ v = Dec(1234567891, 3))
                         => out[pk] = Dec(1235, 3)
                      /\ (cls = "CurrencyPerShare" /\ v = Dec(234567, 5))
                         => out[pk] = Dec(23457, 4)

\* A per-share concept reported in the USD bucket: 2.34567 became 2.3457.
C7_Witness ==
    /\ JustStored
    /\ concept = EarningsPerShareBasic
    /\ unit_type = "USD"
    /\ \E pk \in DOMAIN period_map :
          /\ period_map[pk].val = Dec(234567, 5)
          /\ series[<<ns, concept>>][pk] = Dec(23457, 4)

(***************************************************************************)
(* C8                                                                      *)
(***************************************************************************)

\* The unit buckets the extractor knows.
KnownBuckets ==
    {"USD", "USD/shares", "shares"}

\* e is an observation the reconciler would keep for concept c.
ValidFor(e, c) ==
    PassesFilter(e) /\ ~SpanFilterRejects(e, c)

\* C8: for an allow-listed concept, a valid observation of a period held in
\* any of the buckets USD, USD/shares, shares reaches the output: the line
\* item of the concept exists and has that period, also when the bucket
\* tried first yields nothing for it.
C8_BucketFallback ==
    pc = "done" =>
        \A n \in DOMAIN facts : \A k \in 1..Len(facts[n]) :
           LET c == facts[n][k].concept
               u == facts[n][k].units
           IN  (c \notin EXCLUDE_CONCEPTS /\ c \in DOMAIN CONCEPT_STATEMENT) =>
                  \A b \in KnownBuckets \cap DOMAIN u : \A x \in 1..Len(u[b]) :
                     ValidFor(u[b][x], c) =>
                        /\ human_label(c) \in DOMAIN by_stmt[CONCEPT_STATEMENT[c]]
                        /\ PeriodKeyOf(u[b][x])
                              \in DOMAIN by_stmt[CONCEPT_STATEMENT[c]][human_label(c)]

(***************************************************************************)
(* C9                                                                      *)
(***************************************************************************)

\* Every concept filed in the input, under any namespace.
FiledConcepts ==
    UNION {{facts[n][k].concept : k \in 1..Len(facts[n])} : n \in DOMAIN facts}

KeyOf(c) ==
    <<CONCEPT_STATEMENT[c], human_label(c)>>

\* C10: when a us-gaap concept produced a series for a (statement, label),
\* the one entry the output holds under that label is a series produced by
\* us-gaap, whatever dei produced for the same label.
C10_PrimaryNamespaceWins ==
    pc = "done" =>
        \A sc \in DOMAIN series :
           sc[1] = "us-gaap" =>
              LET key == KeyOf(sc[2])
              IN  /\ key \in DOMAIN result
                  /\ source[key].ns = "us-gaap"
                  /\ KeyOf(source[key].concept) = key
                  /\ by_stmt[key[1]][key[2]] = series[<<"us-gaap", source[key].concept>>]

\* Both namespaces produced a series for Net Income Loss, with different
\* values, and the output holds the one of us-gaap.
C10_Witness ==
    /\ pc = "done"
    /\ <<"us-gaap", NetIncomeLoss>> \in DOMAIN series
    /\ <<"dei", NetIncomeLoss>> \in DOMAIN series
    /\ series[<<"us-gaap", NetIncomeLoss>>] # series[<<"dei", NetIncomeLoss>>]
    /\ by_stmt["IS"][human_label(NetIncomeLoss)] = series[<<"us-gaap", NetIncomeLoss>>]

(***************************************************************************)
(* C11                                                                     *)
(***************************************************************************)

\* The raw store of the scenario: NetIncomeLoss alone, one observation.
OnlyNetIncomeLoss ==
    [n \in {"us-gaap"} |->
       <<[concept |-> NetIncomeLoss,
          units |-> [u \in {"USD"} |->
                       <<[form |-> "10-K", end |-> Iso(2022, 12, 31),
                          start |-> Iso(2022, 1, 1), filed |-> Iso(2023, 2, 1),
                          val |-> Whole(1000000000)]>>]]>>]

\* The cutoff is a calendar date not after the end of 2022.
CutoffCovers2022 ==
    /\ Timestamp(cutoff_date).ok
    /\ Timestamp(cutoff_date).days <= Timestamp(Iso(2022, 12, 31)).days

\* {"Net Income Loss": {"2022": 1000.0}}
NetIncomeLoss2022 ==
    (<<"N", "e", "t", " ", "I", "n", "c", "o", "m", "e", " ", "L", "o", "s", "s">>
        :> (<<"2", "0", "2", "2">> :> Dec(1000000, 3)))

\* C11: the entity whose only raw observation is NetIncomeLoss {end
\* 2022-12-31, start 2022-01-01, filed 2023-02-01, val 1,000,000,000, form
\* 10-K} in USD, extracted annually with a cutoff not after 2022, returns the
\* Income Statement {"Net Income Loss": {"2022": 1000.0}} and an empty
\* Balance Sheet and Cash Flow.
C11_EndToEnd ==
    (pc = "done" /\ is_annual /\ facts = OnlyNetIncomeLoss /\ CutoffCovers2022) =>
        /\ DOMAIN by_stmt = {"IS", "BS", "CF"}
        /\ by_stmt["IS"] = NetIncomeLoss2022
        /\ by_stmt["BS"] = EmptyDict
        /\ by_stmt["CF"] = EmptyDict

C11_Witness ==
    /\ pc = "done"
    /\ is_annual
    /\ facts = OnlyNetIncomeLoss
    /\ cutoff_date = Iso(2022, 1, 1)
    /\ DOMAIN by_stmt["IS"] # {}

(***************************************************************************)
(* C13                                                                     *)
(***************************************************************************)

OperatingIncomeLabel ==
    <<"O", "p", "e", "r", "a", "t", "i", "n", "g", " ", "I", "n", "c", "o",
      "m", "e", " ", "L", "o", "s", "s">>

EBITDALabel ==
    <<"E", "B", "I", "T", "D", "A">>

DepreciationLabel ==
    <<"D", "e", "p", "r", "e", "c", "i", "a", "t", "i", "o", "n", " ", "D",
      "e", "p", "l", "e", "t", "i", "o", "n", " ", "A", "n", "d", " ", "A",
      "m", "o", "r", "t", "i", "z", "a", "t", "i", "o", "n">>

AmortizationLabel ==
    <<"A", "m", "o", "r", "t", "i", "z", "a", "t", "i", "o", "n", " ", "O",
      "f", " ", "I", "n", "t", "a", "n", "g", "i", "b", "l", "e", " ", "A",
      "s", "s", "e", "t", "s">>

\* The value of line item `label` for period p in thousandths of a million,
\* zero when the line item or the period is missing.
TermOrZero(label, p) ==
    IF label \in DOMAIN by_stmt["IS"] /\ p \in DOMAIN by_stmt["IS"][label]
    THEN by_stmt["IS"][label][p].m
    ELSE 0

\* C13: in the returned Income Statement every period that has Operating
\* Income has EBITDA equal to Operating Income + Depreciation & Amortization
\* + Amortization of Intangibles, a missing term counting as zero, and a
\* period without Operating Income has no EBITDA.
C13_DerivedEBITDA ==
    pc = "done" =>
        LET IS  == by_stmt["IS"]
            opP == IF OperatingIncomeLabel \in DOMAIN IS
                   THEN DOMAIN IS[OperatingIncomeLabel] ELSE {}
            ebP == IF EBITDALabel \in DOMAIN IS
                   THEN DOMAIN IS[EBITDALabel] ELSE {}
        IN  /\ ebP = opP
            /\ \A p \in opP :
                  IS[EBITDALabel][p] =
                     Dec(TermOrZero(OperatingIncomeLabel, p)
                         + TermOrZero(DepreciationLabel, p)
                         + TermOrZero(AmortizationLabel, p), 3)

(***************************************************************************)
(* C12                                                                     *)
(***************************************************************************)

\* The preferred order of statement s and how many calls leave s ordered.
OrderOf(s) ==
    IF s = "IS" THEN IS_ORDER ELSE IF s = "BS" THEN BS_ORDER ELSE CF_ORDER

SortedAfter(s) ==
    IF s = "IS" THEN 1 ELSE IF s = "BS" THEN 2 ELSE 3

Preferred(label, s) ==
    \E i \in DOMAIN OrderOf(s) : OrderOf(s)[i] = label

PlaceIn(label, s) ==
    CHOOSE i \in DOMAIN OrderOf(s) : OrderOf(s)[i] = label

\* Every order in which the items of sq can have been inserted.
Reorderings(sq) ==
    {p \in [DOMAIN sq -> {sq[i] : i \in DOMAIN sq}] :
        \A i, j \in DOMAIN sq : i # j => p[i] # p[j]}

\* C12: once a statement has been ordered it holds every input item exactly
\* once, the items of the preferred list first and in the list's order, the
\* remaining items after them in ascending alphabetical order, and any other
\* insertion order of the same items gives the same sequence.
C12_CanonicalOrdering ==
    \A s \in DOMAIN annual :
       sort_i >= SortedAfter(s) =>
          LET out == annual[s]
              inp == annual0[s]
          IN  /\ Len(out) = Len(inp)
              /\ {out[i] : i \in DOMAIN out} = {inp[i] : i \in DOMAIN inp}
              /\ \A i, j \in DOMAIN out :
                    i < j =>
                       LET a == out[i].label
                           b == out[j].label
                       IN  /\ ~(~Preferred(a, s) /\ Preferred(b, s))
                           /\ (Preferred(a, s) /\ Preferred(b, s))
                                 => PlaceIn(a, s) < PlaceIn(b, s)
                           /\ (~Preferred(a, s) /\ ~Preferred(b, s))
                                 => StrLess(a, b)
              /\ \A p \in Reorderings(inp) : sort_statement(p, OrderOf(s)) = out

\* An income statement of three items inserted in another order than the
\* canonical one, with an unlisted label that is alphabetically before a
\* listed one.
C12_Witness ==
    /\ sort_i = 3
    /\ Len(annual["IS"]) = 3
    /\ annual["IS"] # annual0["IS"]
    /\ \E i, j \in DOMAIN annual["IS"] :
          /\ i < j
          /\ Preferred(annual["IS"][i].label, "IS")
          /\ ~Preferred(annual["IS"][j].label, "IS")
          /\ StrLess(annual["IS"][j].label, annual["IS"][i].label)
    /\ \E i, j \in DOMAIN annual["IS"] :
          i # j /\ ~Preferred(annual["IS"][i].label, "IS")
                /\ ~Preferred(annual["IS"][j].label, "IS")

(***************************************************************************)
(* Vocabulary of the miner's properties                                    *)
(***************************************************************************)

\* The fetch of the k-th scanned filing fails: an exception or a status
\* other than 200.
FetchFails(k) ==
    LET resp == web[Scanned[k].accession]
    IN  resp.raised \/ resp.status # 200

\* The tables located in the k-th scanned document, none when its fetch fails.
TablesOf(k) ==
    IF FetchFails(k) THEN <<>> ELSE web[Scanned[k].accession].text.tables

\* The places <<k, n>> of the scanned documents where table t stands.
PlacesOf(t) ==
    {p \in UNION {{<<k, n>> : n \in DOMAIN TablesOf(k)} : k \in DOMAIN Scanned} :
        TablesOf(p[1])[p[2]] = t}

\* The useful tables the scanned documents hold.
UsefulScanned ==
    {t \in UNION {{TablesOf(k)[n] : n \in DOMAIN TablesOf(k)} : k \in DOMAIN Scanned} :
        is_useful_table(t)}

\* How often table t, as found, is in the result list.
TimesReturned(t) ==
    Cardinality({i \in DOMAIN found : found[i].raw = t})

\* All the text of a table.
AllText(df) ==
    JoinTruthy(Flatten(df.rows))

(***************************************************************************)
(* C14                                                                     *)
(***************************************************************************)

\* C14 as stated: at the end of a mining run no two returned tables have the
\* same cell values, and a useful table that stands at two or more places of
\* the scanned documents is in the result list exactly once.
C14_ExactlyOnce ==
    m_pc = "done" =>
        /\ \A i, j \in DOMAIN results : i # j => results[i].df # results[j].df
        /\ \A t \in UsefulScanned :
              Cardinality(PlacesOf(t)) >= 2 => TimesReturned(t) = 1

\* C14, amended: no two returned tables were found with the same
\* fingerprint, so a table with given cell values as found is returned at
\* most once; a useful table of the scanned documents is in the result list
\* at most once, and exactly once unless a different table with the same
\* fingerprint was found before it.
C14_OncePerFingerprint ==
    /\ \A i, j \in DOMAIN found :
          i # j => Fingerprint(found[i].raw) # Fingerprint(found[j].raw)
    /\ m_pc = "done" =>
          \A t \in UsefulScanned :
             /\ TimesReturned(t) <= 1
             /\ TimesReturned(t) = 0 =>
                   \E i \in DOMAIN found :
                      /\ found[i].raw # t
                      /\ Fingerprint(found[i].raw) = Fingerprint(t)
                      /\ \A p \in PlacesOf(t) : found[i].k <= p[1]

\* One table in two documents, returned once with the date of the first.
C14_Witness ==
    /\ m_pc = "done"
    /\ \E t \in UsefulScanned :
          /\ \E p, q \in PlacesOf(t) : p[1] # q[1]
          /\ TimesReturned(t) = 1
          /\ \E i \in DOMAIN found : found[i].raw = t /\ found[i].k = 1

(***************************************************************************)
(* C15                                                                     *)
(***************************************************************************)

\* C15 as stated: a table whose text matches a junk fragment is rejected by
\* is_useful_table and is not in the miner's result.
C15_JunkAnywhere ==
    /\ \A g \in gated : JunkSearch(AllText(g.df)) => ~g.useful
    /\ \A i \in DOMAIN found : ~JunkSearch(AllText(found[i].raw))

\* C15, amended: a table whose first four rows of cell values match a junk
\* fragment is rejected by is_useful_table and is not in the miner's result,
\* whatever its numeric content, size and density.
C15_JunkInFirstRows ==
    /\ \A g \in gated : JunkSearch(AllText([g.df EXCEPT !.rows = FirstRows(g.df, 4)]))
                           => ~g.useful
    /\ \A i \in DOMAIN found :
          ~JunkSearch(AllText([found[i].raw EXCEPT !.rows = FirstRows(found[i].raw, 4)]))

\* A table with "Table of Contents" in its first rows, with numbers, three
\* rows or more and enough filled cells, was rejected and the run is over.
C15_Witness ==
    /\ m_pc = "done"
    /\ \E g \in gated :
          /\ JunkSearch(AllText([g.df EXCEPT !.rows = FirstRows(g.df, 4)]))
          /\ NRows(g.df) >= 3
          /\ NCols(g.df) >= 2
          /\ HasDigitRun(AllText(g.df))
          /\ \E r \in DOMAIN g.df.rows : \A cc \in DOMAIN g.df.rows[r] : g.df.rows[r][cc] # NaN
          /\ ~g.useful
          /\ \A i \in DOMAIN found : found[i].raw # g.df

(***************************************************************************)
(* C16                                                                     *)
(***************************************************************************)

\* The cells of a table that hold text.
FilledCells(df) ==
    {p \in UNION {{<<r, cc>> : cc \in DOMAIN df.rows[r]} : r \in DOMAIN df.rows} :
        df.rows[p[1]][p[2]] # NaN /\ Strip(df.rows[p[1]][p[2]].s) # <<>>}

\* Some cell holds two digits in a row.
SomeCellHasDigits(df) ==
    \E p \in FilledCells(df) : HasDigitRun(df.rows[p[1]][p[2]].s)

\* C16: is_useful_table rejects a table of fewer than 3 rows, of fewer than
\* 2 columns, without two consecutive digits in any cell, or with fewer than
\* 15% of its cells filled (so the empty 2x2 table); it accepts a table with
\* exactly 15% of its cells filled that passes the other checks.
C16_StructureGate ==
    \A g \in gated :
       LET df     == g.df
           filled == Cardinality(FilledCells(df))
           cells  == NRows(df) * NCols(df)
       IN  /\ NRows(df) < 3 => ~g.useful
           /\ NCols(df) < 2 => ~g.useful
           /\ ~SomeCellHasDigits(df) => ~g.useful
           /\ 100 * filled < 15 * cells => ~g.useful
           /\ (NRows(df) = 2 /\ NCols(df) = 2 /\ filled = 0) => ~g.useful
           /\ ( /\ 100 * filled = 15 * cells
                /\ NRows(df) >= 3
                /\ NCols(df) >= 2
                /\ SomeCellHasDigits(df)
                /\ ~JunkSearch(AllText([df EXCEPT !.rows = FirstRows(df, 4)])) )
                 => g.useful

\* A table of twenty cells, three of them filled, was accepted and returned.
C16_Witness ==
    /\ m_pc = "done"
    /\ \E g \in gated :
          /\ NRows(g.df) * NCols(g.df) = 20
          /\ Cardinality(FilledCells(g.df)) = 3
          /\ g.useful
          /\ \E i \in DOMAIN found : found[i].raw = g.df

(***************************************************************************)
(* C17                                                                     *)
(***************************************************************************)

\* How often the k-th filing was fetched according to history h.
FetchesOf(h, k) ==
    Cardinality({i \in DOMAIN h : h[i].e = "fetch" /\ h[i].k = k})

\* C17: the step that fetches a document whose fetch fails leaves results
\* and the fingerprints collected so far as they are and moves on to the
\* next filing; no document is fetched twice and no returned table comes
\* from a document whose fetch failed.
C17_FailedFetchNonFatal ==
    [][ /\ (m_pc = "fetch" /\ fi <= Len(Scanned) /\ FetchFails(fi)) =>
              /\ results' = results
              /\ found' = found
              /\ seen_tables' = seen_tables
              /\ fi' = fi + 1
              /\ m_pc' = "fetch"
        /\ \A k \in DOMAIN Scanned : FetchesOf(log', k) <= 1
        /\ \A i \in DOMAIN found' : ~FetchFails(found'[i].k)
      ]_vars

\* A failed fetch came after tables had been collected and the run went on.
C17_Witness ==
    /\ m_pc = "done"
    /\ \E k \in DOMAIN Scanned :
          /\ FetchFails(k)
          /\ FetchesOf(log, k) = 1
          /\ \E i \in DOMAIN found : found[i].k < k
          /\ \E j \in DOMAIN Scanned : j > k /\ FetchesOf(log, j) = 1

(***************************************************************************)
(* C18                                                                     *)
(***************************************************************************)

\* C18: between two successive document fetches of a mining run there is a
\* pacing delay: the history never shows two fetches in a row.
C18_PacedFetches ==
    \A i \in DOMAIN log :
       (i < Len(log) /\ log[i].e = "fetch") => log[i + 1].e # "fetch"

(***************************************************************************)
(* C19                                                                     *)
(***************************************************************************)

\* The ticker stands in no entry of the lookup table, whatever the case.
NoMatch ==
    \A i \in DOMAIN company_tickers : Upper(company_tickers[i].ticker) # Upper(ticker)

\* The run got its lookup table and the ticker is not in it.
NotFoundRun ==
    /\ run_btn
    /\ Truthy(ticker)
    /\ failing # "get_cik"
    /\ NoMatch

\* C19: when the ticker has no match in the lookup table, the run starts no
\* call after the lookup (no company-name fetch, no raw-fact fetch, no
\* extraction, no table mining, no workbook) and ends with the not-found
\* error as its only message.
C19_NotFoundAbort ==
    NotFoundRun =>
        /\ \A i \in DOMAIN steps : steps[i] = "get_cik"
        /\ ~delivered
        /\ main_pc \in {"start", "check_cik", "returned"}
        /\ main_pc = "returned" => shown = <<"error: could not find CIK">>

C19_Witness ==
    /\ NotFoundRun
    /\ company_tickers # <<>>
    /\ main_pc = "returned"
    /\ steps = <<"get_cik">>

(***************************************************************************)
(* C20                                                                     *)
(***************************************************************************)

\* A terminal failure message is on the screen.
TerminalFailure ==
    \E i \in DOMAIN shown : shown[i] \in {"error: could not find CIK", "error: exception"}

\* C20: a finished run shows a terminal failure message only when the ticker
\* was not found or the upstream retrieval before the extraction failed;
\* under every other condition (malformed data, a failure while mining the
\* disclosure tables) it delivers the statement output.
C20_FailurePropagation ==
    (main_pc = "returned" /\ run_btn /\ Truthy(ticker)) =>
        IF NotFoundRun \/ failing \in {"get_cik", "get_company_name", "get_xbrl_facts"}
        THEN TerminalFailure
        ELSE ~TerminalFailure /\ delivered

(***************************************************************************)
(* C21                                                                     *)
(***************************************************************************)

\* The places in the filing list of the documents attempted so far, in the
\* order of the attempts.
Attempted ==
    LET fetches == SelectSeq(log, LAMBDA ev : ev.e = "fetch")
    IN  [i \in DOMAIN fetches |-> fetches[i].k]

\* The number of documents a whole run attempts.
DocumentBound ==
    IF max_filings < Len(filings) THEN max_filings ELSE Len(filings)

\* C21: the filing list is in descending order of filing date, the
\* documents attempted are its first entries in that order, never more than
\* max_filings, and all of its first max_filings entries when the run is
\* over; each returned table carries the date of the first document in that
\* order that holds it as a useful table.
C21_DocumentBoundAndOrder ==
    /\ \A i, j \in DOMAIN filings :
          i < j => ~StrLess(filings[i].date, filings[j].date)
    /\ Len(Attempted) <= DocumentBound
    /\ \A i \in DOMAIN Attempted : Attempted[i] = i
    /\ m_pc = "done" => Len(Attempted) = DocumentBound
    /\ \A i \in DOMAIN results :
          /\ results[i].date = filings[found[i].k].date
          /\ found[i].k \in DOMAIN Attempted
          /\ \E p \in PlacesOf(found[i].raw) : p[1] = found[i].k
          /\ \A p \in PlacesOf(found[i].raw) : p[1] >= found[i].k

C21_Witness ==
    /\ m_pc = "done"
    /\ max_filings < Len(filings)
    /\ \E i, j \in DOMAIN filings : i < j /\ filings[i].accession > filings[j].accession
    /\ \E i, j \in DOMAIN filings : i # j /\ filings[i].date = filings[j].date
    /\ \E i \in DOMAIN results :
       \E p \in PlacesOf(found[i].raw) : p[1] > found[i].k

(***************************************************************************)
(* C22                                                                     *)
(***************************************************************************)

\* The filed date of an observation as the reconciler reads it: the empty
\* string when the observation has none.
FiledOf(e) ==
    Get(e, "filed", <<>>)

\* C22: of two surviving observations of one PeriodKey with the same filed
\* date (both without one included), the later in the input list is never
\* the retained one, and while their filed date is the retained one the
\* retained observation stands no later in the list than the earlier of them.
C22_EqualFiledKeepsFirst ==
    pc = "obs" =>
        \A i \in Survivors : \A j \in Survivors :
           (/\ i < j
            /\ PeriodKeyOf(filtered[i]) = PeriodKeyOf(filtered[j])
            /\ FiledOf(filtered[i]) = FiledOf(filtered[j]))
           => LET pk == PeriodKeyOf(filtered[i])
              IN  /\ pk \in DOMAIN period_map
                  /\ origin[pk] # j
                  /\ period_map[pk].filed = FiledOf(filtered[i]) => origin[pk] <= i

\* Two observations of one period filed the same day with different values:
\* the first of the list is retained, and with it its value.
C22_Witness ==
    /\ LoopFinished
    /\ \E i \in Survivors : \E j \in Survivors :
          /\ i < j
          /\ PeriodKeyOf(filtered[i]) = PeriodKeyOf(filtered[j])
          /\ "filed" \in DOMAIN filtered[i]
          /\ FiledOf(filtered[i]) = FiledOf(filtered[j])
          /\ filtered[i]["val"] # filtered[j]["val"]
          /\ origin[PeriodKeyOf(filtered[i])] = i
          /\ period_map[PeriodKeyOf(filtered[i])].val = filtered[i]["val"]

(***************************************************************************)
(* C23                                                                     *)
(***************************************************************************)

\* The calendar year in which the period of an observation ends.
CalendarYearOf(e) ==
    SubSeq(e["end"], 1, 4)

\* The surviving observations whose period ends in calendar year y.
SurvivorsOfYear(y) ==
    {i \in Survivors : CalendarYearOf(filtered[i]) = y}

\* C23: under annual frequency the keys of period_map are the calendar years
\* in which the periods of the survivors end, and under each year stands the
\* pair of one survivor of that year, filed no earlier than any other survivor
\* of the year, whatever their end dates; under quarterly frequency every
\* survivor's end date is a key of its own, held by an observation with that
\* end date.
C23_AnnualKeyCollapse ==
    pc = "obs" =>
        IF is_annual
        THEN /\ DOMAIN period_map = {CalendarYearOf(filtered[i]) : i \in Survivors}
             /\ \A y \in DOMAIN period_map :
                   /\ origin[y] \in SurvivorsOfYear(y)
                   /\ period_map[y] = PairOf(filtered[origin[y]])
                   /\ \A i \in SurvivorsOfYear(y) :
                         ~StrLess(period_map[y].filed, FiledOf(filtered[i]))
        ELSE /\ DOMAIN period_map = {filtered[i]["end"] : i \in Survivors}
             /\ \A k \in DOMAIN period_map : filtered[origin[k]]["end"] = k

\* Two fiscal periods that end on different days of one calendar year are
\* merged: one key, the value of the one filed later.
C23_Witness ==
    /\ LoopFinished
    /\ is_annual
    /\ \E i \in Survivors : \E j \in Survivors :
          /\ filtered[i]["end"] # filtered[j]["end"]
          /\ CalendarYearOf(filtered[i]) = CalendarYearOf(filtered[j])
          /\ Cardinality(DOMAIN period_map) = 1
          /\ origin[CalendarYearOf(filtered[i])] = j
          /\ period_map[CalendarYearOf(filtered[i])].val # filtered[i]["val"]

(***************************************************************************)
(* C24                                                                     *)
(***************************************************************************)

\* The first 300 characters of the serialized cell values of a table.
First300(df) ==
    LET text == Serialized(df)
    IN  [n \in 1..(IF Len(text) < 300 THEN Len(text) ELSE 300) |-> text[n]]

\* C24: the fingerprints registered for the run are the first 300 characters
\* of the serializations of the returned tables as found, and no two returned
\* tables agree on them; a useful table that agrees on them with a different
\* returned table is not returned; within a document the registered
\* fingerprints are those of the tables that passed the quality gate, so a
\* rejected table registers none.
C24_TruncatedFingerprint ==
    /\ seen_tables = {First300(found[i].raw) : i \in DOMAIN found}
    /\ \A i, j \in DOMAIN found :
          i # j => First300(found[i].raw) # First300(found[j].raw)
    /\ m_pc = "done" =>
          \A t \in UsefulScanned :
             (\E i \in DOMAIN found :
                 found[i].raw # t /\ First300(found[i].raw) = First300(t))
             => TimesReturned(t) = 0
    /\ m_pc \in {"extract", "collect"} =>
          /\ seen = {First300(doc_results[n]) : n \in DOMAIN doc_results}
          /\ \A n \in DOMAIN doc_results : is_useful_table(doc_results[n])
          /\ \A n \in 1..(cand_i - 1) :
                (/\ ~is_useful_table(html.tables[n])
                 /\ \A d \in DOMAIN doc_results :
                       First300(doc_results[d]) # First300(html.tables[n]))
                => First300(html.tables[n]) \notin seen

\* A run that returned one of two tables of more than 300 characters which
\* differ after the 300th, dropped the other, and met a table the gate
\* rejected, whose fingerprint was never registered.
C24_Witness ==
    /\ m_pc = "done"
    /\ \E t \in UsefulScanned : \E i \in DOMAIN found :
          /\ Len(Serialized(t)) > 300
          /\ Serialized(t) # Serialized(found[i].raw)
          /\ First300(t) = First300(found[i].raw)
          /\ TimesReturned(t) = 0
    /\ \E g \in gated : ~g.useful /\ First300(g.df) \notin seen_tables

=============================================================================
